---------------------------- MODULE Spec2Model ----------------------------
(* A model of jax/experimental/checkify.py: the functional error value,    *)
(* the assertion fold, the leaf check rules, and the ErrorTrace overlay    *)
(* that threads the error value through primitives, calls, maps and        *)
(* control flow.                                                           *)
(*                                                                         *)
(* Arrays.  A value carries its shape: <<>> for a scalar, <<n>> for a      *)
(* one-axis array.  `data` lists the elements (one element for a scalar).  *)
(* Axes and positions are numbered from 1 here and from 0 in the source;   *)
(* index VALUES (gather/scatter start indices) keep the source's 0-based   *)
(* numbering.                                                              *)
EXTENDS Integers, Sequences, FiniteSets, TLC

VARIABLES
  next_code,   \* the value the process-wide counter next_code() returns next
  pc,          \* checked_fun: "idle", "running", "done" (returned), "raised"
               \* (an exception left a rule), "TypeError" (assert_ refused
               \* the program's predicate)
  main_error,  \* the attribute main.error: <<>> when unset, <<e>> when set
  main_msgs,   \* the attribute main.msgs: <<>> when unset, <<msgs>> when set
  frames,      \* the process_call / process_map invocations in progress
  reg,         \* the value the checked program has computed so far
  ref,         \* the value the same program computes without checkify
  ret,         \* what checked_fun returned: <<>> or <<[error, out]>>
  failed,      \* messages of the checks that failed in this run
  issued,      \* every code drawn from the counter, in the order drawn
  said,        \* every (code, message) pair put into a message table in this run
  cur,         \* SpecRules: the ErrorValue the next rule is applied to
  rule,        \* SpecRules: the rule applied last ("none" before the first)
  args,        \* SpecRules: the inputs of that application
  before,      \* SpecRules: the ErrorValue that application was given
  res,         \* SpecRules: what it returned, [out, error, raised]
  nfolds       \* SpecRules: how many rules have been applied

rvars == <<cur, rule, args, before, res, nfolds>>
ivars == <<pc, main_error, main_msgs, frames, reg, ref, ret, failed, issued, said>>
vars == <<next_code, ivars, rvars>>

-----------------------------------------------------------------------------
(* Bounds of the model. *)

MaxCode == 3     \* no code above this is drawn from the counter
MaxLen == 2      \* most elements of an array
MaxFolds == 2    \* longest chain of rule applications in SpecRules
MaxIdx == 1      \* most index vectors given to one gather or scatter

-----------------------------------------------------------------------------
(* Shaped values. *)

Scalar(v) == [shape |-> <<>>, data |-> <<v>>]
Vec(s) == [shape |-> <<Len(s)>>, data |-> s]
Size(a) == Len(a.data)

SeqsUpTo(S, n) == UNION {[1..k -> S] : k \in 1..n}

\* numpy broadcasting of a scalar against a one-axis array
BroadcastShape(s, t) == IF s = <<>> THEN t ELSE s
At(a, i) == IF a.shape = <<>> THEN a.data[1] ELSE a.data[i]
NElems(shape) == IF shape = <<>> THEN 1 ELSE shape[1]
Compatible(s, t) == s = <<>> \/ t = <<>> \/ s = t

logical_not(p) == [shape |-> p.shape, data |-> [i \in 1..Size(p) |-> ~p.data[i]]]

logical_or(a, b) ==
  LET s == BroadcastShape(a.shape, b.shape)
  IN [shape |-> s, data |-> [i \in 1..NElems(s) |-> At(a, i) \/ At(b, i)]]

\* select(pred, on_true, on_false), elementwise
select(p, t, f) ==
  LET s == BroadcastShape(p.shape, BroadcastShape(t.shape, f.shape))
  IN [shape |-> s,
      data |-> [i \in 1..NElems(s) |-> IF At(p, i) THEN At(t, i) ELSE At(f, i)]]

-----------------------------------------------------------------------------
(* Error value data type and functional assert. *)

Error(err, code, msgs) == [err |-> err, code |-> code, msgs |-> msgs]

EmptyMsgs == [k \in {} |-> ""]

init_error == Error(Scalar(FALSE), Scalar(0), EmptyMsgs)

\* {**a, **b}: the entries of both, b's winning on a shared key
Merge(a, b) ==
  [k \in (DOMAIN a) \cup (DOMAIN b) |-> IF k \in DOMAIN b THEN b[k] ELSE a[k]]

One(code, msg) == [k \in {code} |-> msg]

NoneValue == [kind |-> "None", lines |-> <<>>]

get_by_shape(e) ==
  IF e.err.shape # e.code.shape THEN [kind |-> "AssertionError", lines |-> <<>>]
  ELSE IF e.err.shape = <<>>
    THEN IF e.err.data[1]
           THEN IF e.code.data[1] \in DOMAIN e.msgs
                  THEN [kind |-> "str",
                        lines |-> <<[prefix |-> "", idx |-> <<>>,
                                     msg |-> e.msgs[e.code.data[1]]]>>]
                  ELSE [kind |-> "KeyError", lines |-> <<>>]
           ELSE NoneValue
    ELSE LET hit == {i \in 1..Size(e.err) : e.err.data[i]}
             \* ndenumerate visits the indices in ascending order
             Nth[k \in 1..Cardinality(hit)] ==
               CHOOSE i \in hit : Cardinality({j \in hit : j < i}) = k - 1
         IN IF \E i \in hit : e.code.data[i] \notin DOMAIN e.msgs
              THEN [kind |-> "KeyError", lines |-> <<>>]
              ELSE IF hit = {} THEN NoneValue
              ELSE [kind |-> "str",
                    lines |-> [k \in 1..Cardinality(hit) |->
                                 [prefix |-> "at mapped index",
                                  idx |-> <<Nth[k] - 1>>,
                                  msg |-> e.msgs[e.code.data[Nth[k]]]]]]

\* Error.get(): the summary, or the exception its lookups and assertion raise
get(e) ==
  IF e.err.shape # e.code.shape THEN [kind |-> "AssertionError", lines |-> <<>>]
  ELSE IF Size(e.err) = 1
    THEN IF e.err.data[1]
           THEN IF e.code.data[1] \in DOMAIN e.msgs
                  THEN [kind |-> "str",
                        lines |-> <<[prefix |-> "", idx |-> <<>>,
                                     msg |-> e.msgs[e.code.data[1]]]>>]
                  ELSE [kind |-> "KeyError", lines |-> <<>>]
           ELSE NoneValue
    ELSE LET hit == {i \in 1..Size(e.err) : e.err.data[i]}
             \* ndenumerate visits the indices in ascending order
             Nth[k \in 1..Cardinality(hit)] ==
               CHOOSE i \in hit : Cardinality({j \in hit : j < i}) = k - 1
         IN IF \E i \in hit : e.code.data[i] \notin DOMAIN e.msgs
              THEN [kind |-> "KeyError", lines |-> <<>>]
              ELSE IF hit = {} THEN NoneValue
              ELSE [kind |-> "str",
                    lines |-> [k \in 1..Cardinality(hit) |->
                                 [prefix |-> "at mapped index",
                                  idx |-> <<Nth[k] - 1>>,
                                  msg |-> e.msgs[e.code.data[Nth[k]]]]]]

assert_func_keep_new(error, pred, msg, code) ==
  Error(logical_or(error.err, logical_not(pred)),
        select(error.err, Scalar(code), error.code),
        Merge(error.msgs, One(code, msg)))

assert_func_no_not(error, pred, msg, code) ==
  Error(logical_or(error.err, pred),
        select(error.err, error.code, Scalar(code)),
        Merge(One(code, msg), error.msgs))

\* assert_func(error, pred, msg), `code` being what next_code() returned
assert_func(error, pred, msg, code) ==
  Error(logical_or(error.err, logical_not(pred)),
        select(error.err, error.code, Scalar(code)),
        Merge(One(code, msg), error.msgs))


\* next_code = it.count(1).__next__: the counter after one more draw
count_next_stuck(c) == c

count_next(c) == c + 1

-----------------------------------------------------------------------------
(* Floating-point values, by class: zero, a finite positive number, +inf,  *)
(* NaN.  Data tensors list, per batch lane, the elements of one example.   *)

F == {"zero", "one", "inf", "nan"}

FDiv(a, b) ==
  IF a = "nan" \/ b = "nan" THEN "nan"
  ELSE IF b = "zero" THEN (IF a = "zero" THEN "nan" ELSE "inf")
  ELSE IF b = "inf" THEN (IF a = "inf" THEN "nan" ELSE "zero")
  ELSE a

FMul(a, b) ==
  IF a = "nan" \/ b = "nan" THEN "nan"
  ELSE IF a = "zero" THEN (IF b = "inf" THEN "nan" ELSE "zero")
  ELSE IF b = "zero" THEN (IF a = "inf" THEN "nan" ELSE "zero")
  ELSE IF a = "inf" \/ b = "inf" THEN "inf"
  ELSE "one"

FAdd(a, b) ==
  IF a = "nan" \/ b = "nan" THEN "nan"
  ELSE IF a = "inf" \/ b = "inf" THEN "inf"
  ELSE IF a = "zero" THEN b ELSE a

FRank(a) == CASE a = "zero" -> 0 [] a = "one" -> 1 [] a = "inf" -> 2 [] OTHER -> 3

FMin(a, b) ==
  IF a = "nan" \/ b = "nan" THEN "nan" ELSE IF FRank(a) <= FRank(b) THEN a ELSE b

FMax(a, b) ==
  IF a = "nan" \/ b = "nan" THEN "nan" ELSE IF FRank(a) >= FRank(b) THEN a ELSE b

FTan(a) == IF a = "inf" THEN "nan" ELSE a

Tensor(shape, data) == [shape |-> shape, data |-> data]

\* one element of the output of an elementwise primitive
Elem(prim, a, b) ==
  CASE prim = "div" -> FDiv(a, b)
    [] prim = "mul" -> FMul(a, b)
    [] prim = "tan" -> FTan(a)

\* prim.bind(*in_vals) for the elementwise primitives of the model; the unary
\* primitive tan has one operand
Bind(prim, in_vals) ==
  LET x == in_vals[1]
      y == in_vals[Len(in_vals)]
  IN Tensor(x.shape, [i \in 1..Len(x.data) |->
                        [j \in 1..Len(x.data[i]) |->
                           Elem(prim, x.data[i][j], y.data[i][j])]])

\* jnp.any(jnp.isnan(out)), jnp.any(jnp.equal(y, 0)): one boolean per lane
AnyIs(v, t) ==
  [shape |-> t.shape,
   data |-> [i \in 1..Len(t.data) |-> \E j \in 1..Len(t.data[i]) : t.data[i][j] = v]]

-----------------------------------------------------------------------------
(* checkify rules.  A rule returns [out, error, next_code]: the primitive's *)
(* output, the folded ErrorValue, and the counter after the codes it drew.  *)

NanMsg(prim) ==
  CASE prim = "div" -> "nan generated by primitive div"
    [] prim = "mul" -> "nan generated by primitive mul"
    [] prim = "scatter" -> "nan generated by primitive scatter"
    [] prim = "scatter-add" -> "nan generated by primitive scatter-add"
    [] prim = "scatter-mul" -> "nan generated by primitive scatter-mul"
    [] prim = "scatter-min" -> "nan generated by primitive scatter-min"
    [] prim = "scatter-max" -> "nan generated by primitive scatter-max"

DivMsg == "divided by zero"
GatherMsg == "out-of-bounds indexing"
ScatterMsg == "out-of-bounds indexing while updating"

Rule(out, error, nc) == [out |-> out, error |-> error, next_code |-> nc]


nan_error_check_masked(prim, error, in_vals, nc) ==
  LET out == Bind(prim, in_vals)
      no_nans == logical_not(AnyIs("nan", out))
      shown == Tensor(out.shape, [i \in 1..Len(out.data) |->
                 [j \in 1..Len(out.data[i]) |->
                    IF out.data[i][j] = "nan" THEN "zero" ELSE out.data[i][j]]])
  IN Rule(shown, assert_func(error, no_nans, NanMsg(prim), nc), count_next(nc))

nan_error_check(prim, error, in_vals, nc) ==
  LET out == Bind(prim, in_vals)
      no_nans == logical_not(AnyIs("nan", out))
  IN Rule(out, assert_func(error, no_nans, NanMsg(prim), nc), count_next(nc))

div_error_check_nan_first(error, x, y, nc) ==
  LET r == nan_error_check("div", error, <<x, y>>, nc)
      all_nonzero == logical_not(AnyIs("zero", y))
  IN Rule(r.out, assert_func(r.error, all_nonzero, DivMsg, r.next_code),
          count_next(r.next_code))

div_error_check(error, x, y, nc) ==
  LET all_nonzero == logical_not(AnyIs("zero", y))
      div_by_zero_err == assert_func(error, all_nonzero, DivMsg, nc)
  IN nan_error_check("div", div_by_zero_err, <<x, y>>, count_next(nc))


\* The rows of index vectors are 0-based positions, as in the source.
Clamp(i, lo, hi) == IF i < lo THEN lo ELSE IF i > hi THEN hi ELSE i

GatherUpper(operand, p) ==
  [k \in 1..Len(p.start_index_map) |->
     operand.shape[p.start_index_map[k]] - p.slice_sizes[p.start_index_map[k]]]

\* lax.gather_p.bind: per index vector, the start of the slice that is read
\* (clamped into range under mode clip; the fill value under mode fill)
gather_bind(operand, start_indices, p) ==
  LET ub == GatherUpper(operand, p)
      inb(n) == \A k \in 1..Len(ub) :
                  start_indices[n][k] >= 0 /\ start_indices[n][k] <= ub[k]
  IN [n \in 1..Len(start_indices) |->
        IF p.mode = "fill" /\ ~inb(n)
          THEN [k \in 1..Len(ub) |-> -1]
          ELSE [k \in 1..Len(ub) |-> Clamp(start_indices[n][k], 0, ub[k])]]

gather_error_check_strict(error, operand, start_indices, p, nc) ==
  LET out == gather_bind(operand, start_indices, p)
      upper_bound == GatherUpper(operand, p)
      all_inbounds ==
        \A n \in 1..Len(start_indices) : \A k \in 1..Len(upper_bound) :
          start_indices[n][k] >= 0 /\ start_indices[n][k] < upper_bound[k]
  IN Rule(out, assert_func(error, Scalar(all_inbounds), GatherMsg, nc),
          count_next(nc))

gather_error_check_other_mode(error, operand, start_indices, p, nc) ==
  LET out == gather_bind(operand, start_indices, [p EXCEPT !.mode = "clip"])
      upper_bound == GatherUpper(operand, p)
      all_inbounds ==
        \A n \in 1..Len(start_indices) : \A k \in 1..Len(upper_bound) :
          start_indices[n][k] >= 0 /\ start_indices[n][k] <= upper_bound[k]
  IN Rule(out, assert_func(error, Scalar(all_inbounds), GatherMsg, nc),
          count_next(nc))

gather_error_check(error, operand, start_indices, p, nc) ==
  LET out == gather_bind(operand, start_indices, p)
      upper_bound == GatherUpper(operand, p)
      all_inbounds ==
        \A n \in 1..Len(start_indices) : \A k \in 1..Len(upper_bound) :
          start_indices[n][k] >= 0 /\ start_indices[n][k] <= upper_bound[k]
  IN Rule(out, assert_func(error, Scalar(all_inbounds), GatherMsg, nc),
          count_next(nc))

Int32Max == 2147483647

Min(a, b) == IF a <= b THEN a ELSE b

\* the window extent of the update along each operand axis
ScatterSliceSizes(operand, updates, dnums) ==
  [i \in 1..Len(operand.shape) |->
     IF i \in dnums.inserted_window_dims THEN 1
     ELSE updates.shape[dnums.update_window_dims[
            Cardinality({j \in 1..(i - 1) : j \notin dnums.inserted_window_dims}) + 1]]]

scatter_in_bounds(operand, indices, updates, dnums) ==
  LET slice_sizes == ScatterSliceSizes(operand, updates, dnums)
      sd == dnums.scatter_dims_to_operand_dims
      upper_bound == [k \in 1..Len(sd) |->
                        Min(operand.shape[sd[k]] - slice_sizes[sd[k]], Int32Max)]
      lower_in_bounds == \A n \in 1..Len(indices) : \A k \in 1..Len(sd) :
                           indices[n][k] >= 0
      upper_in_bounds == \A n \in 1..Len(indices) : \A k \in 1..Len(sd) :
                           indices[n][k] <= upper_bound[k]
  IN lower_in_bounds /\ upper_in_bounds

Combine(prim, old, new) ==
  CASE prim = "scatter" -> new
    [] prim = "scatter-add" -> FAdd(old, new)
    [] prim = "scatter-mul" -> FMul(old, new)
    [] prim = "scatter-min" -> FMin(old, new)
    [] prim = "scatter-max" -> FMax(old, new)

\* prim.bind for the scatter family on a one-axis operand: update n is put at
\* start indices[n][1] (clamped under mode clip, dropped when out of range
\* otherwise); updates.data[n] is the window of update n.
RECURSIVE ScatterFrom(_, _, _, _, _, _)
ScatterFrom(prim, acc, indices, updates, mode, n) ==
  IF n > Len(indices) THEN acc
  ELSE LET w == Len(updates.data[n])
           hi == Len(acc) - w
           i0 == indices[n][1]
           ok == i0 >= 0 /\ i0 <= hi
           st == Clamp(i0, 0, hi)
           nxt == IF mode # "clip" /\ ~ok THEN acc
                  ELSE [j \in 1..Len(acc) |->
                          IF j - 1 >= st /\ j - 1 < st + w
                            THEN Combine(prim, acc[j], updates.data[n][j - st])
                            ELSE acc[j]]
       IN ScatterFrom(prim, nxt, indices, updates, mode, n + 1)

scatter_bind(prim, operand, indices, updates, p) ==
  Tensor(<<>>, <<ScatterFrom(prim, operand.data, indices, updates, p.mode, 1)>>)

scatter_error_check_nan_first(prim, error, operand, indices, updates, p, nc) ==
  LET out == scatter_bind(prim, operand, indices, updates, p)
      in_bounds == scatter_in_bounds(operand, indices, updates, p.dimension_numbers)
      no_nans == logical_not(AnyIs("nan", out))
      nan_error == assert_func(error, no_nans, NanMsg(prim), nc)
  IN Rule(out, assert_func(nan_error, Scalar(in_bounds), ScatterMsg, count_next(nc)),
          count_next(count_next(nc)))

scatter_error_check(prim, error, operand, indices, updates, p, nc) ==
  LET out == scatter_bind(prim, operand, indices, updates, p)
      in_bounds == scatter_in_bounds(operand, indices, updates, p.dimension_numbers)
      oob_error == assert_func(error, Scalar(in_bounds), ScatterMsg, nc)
      no_nans == logical_not(AnyIs("nan", out))
  IN Rule(out, assert_func(oob_error, no_nans, NanMsg(prim), count_next(nc)),
          count_next(count_next(nc)))

\* assert_discharge_rule(error, pred, code, msgs=msgs): no code is drawn
assert_discharge_rule_overwrite(error, pred, code, msgs, nc) ==
  Rule(<<>>,
       Error(logical_or(error.err, logical_not(pred)),
             select(logical_not(pred), Scalar(code), error.code),
             Merge(error.msgs, msgs)),
       nc)

assert_discharge_rule(error, pred, code, msgs, nc) ==
  Rule(<<>>,
       Error(logical_or(error.err, logical_not(pred)),
             select(error.err, error.code, Scalar(code)),
             Merge(error.msgs, msgs)),
       nc)


-----------------------------------------------------------------------------
(* The reduction of the per-element errors of a map. *)

\* the elements of a finite set of integers in ascending order
RECURSIVE Ascending(_)
Ascending(S) ==
  IF S = {} THEN <<>>
  ELSE LET m == CHOOSE a \in S : \A b \in S : a <= b
       IN <<m>> \o Ascending(S \ {m})

\* lax.sort_key_val(keys, values) for boolean keys: a stable sort, False first
sort_key_val(keys, values) ==
  LET order == Ascending({i \in 1..Len(keys) : ~keys[i]})
                 \o Ascending({i \in 1..Len(keys) : keys[i]})
  IN [keys |-> [i \in 1..Len(keys) |-> keys[order[i]]],
      values |-> [i \in 1..Len(keys) |-> values[order[i]]]]

reduce_any_error_first(errs, codes) ==
  [err |-> Scalar(\E i \in 1..Len(errs.data) : errs.data[i]),
   code |-> Scalar(codes.data[1])]

reduce_any_error_max_code(errs, codes) ==
  LET hit == {i \in 1..Len(errs.data) : errs.data[i]}
      among == IF hit = {} THEN 1..Len(errs.data) ELSE hit
  IN [err |-> Scalar(hit # {}),
      code |-> Scalar(CHOOSE c \in {codes.data[i] : i \in among} :
                        \A i \in among : codes.data[i] <= c)]

\* _reduce_any_error(errs, codes)
reduce_any_error(errs, codes) ==
  LET sorted == sort_key_val(errs.data, codes.data)
  IN [err |-> Scalar(sorted.keys[Len(sorted.keys)]),
      code |-> Scalar(sorted.values[Len(sorted.values)])]

-----------------------------------------------------------------------------
(* SpecRules: the rules as functions.  An ErrorValue is drawn, and rules    *)
(* are applied to drawn inputs; each application is recorded.  The folds    *)
(* assert_func and assert_discharge_rule chain up to MaxFolds deep; a leaf  *)
(* rule is applied to the drawn ErrorValue.                                 *)

UserMsgs == {"A", "B"}

BoolArrays == {Scalar(b) : b \in BOOLEAN} \cup {Vec(s) : s \in SeqsUpTo(BOOLEAN, MaxLen)}

\* ErrorValues a caller can hold: the initial one, and ones left by a check
\* with code 1 (scalar, or one per element of a batch of one or two)
StartErrors ==
  {init_error}
    \cup {Error(Scalar(b), Scalar(1), One(1, "A")) : b \in BOOLEAN}
    \cup {Error(Vec(s), Vec([i \in 1..Len(s) |-> 1]), One(1, "A")) :
            s \in SeqsUpTo(BOOLEAN, 2)}

Arrays == {Tensor(<<>>, <<a>>) : a \in SeqsUpTo(F, MaxLen)}

GatherOperands == {[shape |-> <<5>>], [shape |-> <<2, 5>>]}
GatherIndexValues == {-1, 0, 3, 4, 10}
IndexMaps(operand) ==
  IF Len(operand.shape) = 1 THEN {<<1>>} ELSE {<<1>>, <<2>>, <<1, 2>>, <<2, 1>>}
SliceSizes(operand) ==
  {ss \in [1..Len(operand.shape) -> {1, 2, 5}] :
     \A a \in 1..Len(operand.shape) : ss[a] <= operand.shape[a]}
Modes == {"clip", "other"}

ScatterPrims == {"scatter", "scatter-add", "scatter-mul", "scatter-min", "scatter-max"}
ScatterIndexValues == {-1, 0, 1, 2}
\* a two-element operand; the update of every index vector is one element
\* (the scattered axis is an inserted window axis) or a window of w elements
ScatterOperands == {[shape |-> <<2>>, data |-> d] : d \in [1..2 -> F]}
ScatterDnums ==
  {[inserted_window_dims |-> {1}, update_window_dims |-> <<>>,
    scatter_dims_to_operand_dims |-> <<1>>],
   [inserted_window_dims |-> {}, update_window_dims |-> <<2>>,
    scatter_dims_to_operand_dims |-> <<1>>]}
ScatterUpdates(dn, n) ==
  IF dn.inserted_window_dims = {1}
    THEN {[shape |-> <<n>>, data |-> [i \in 1..n |-> <<u>>]] : u \in F}
    ELSE {[shape |-> <<n, w>>, data |-> [i \in 1..n |-> [j \in 1..w |-> u]]] :
            u \in F, w \in 1..2}

Applied(r, a, result) ==
  /\ rule' = r
  /\ args' = a
  /\ before' = cur
  /\ res' = result
  /\ cur' = result.error
  /\ next_code' = result.next_code
  /\ nfolds' = nfolds + 1
  /\ UNCHANGED ivars

IdleOverlay ==
  /\ pc = "idle"
  /\ main_error = <<>>
  /\ main_msgs = <<>>
  /\ frames = <<>>
  /\ reg = Tensor(<<>>, <<<<"zero">>>>)
  /\ ref = Tensor(<<>>, <<<<"zero">>>>)
  /\ ret = <<>>
  /\ failed = {}
  /\ issued = <<>>
  /\ said = {}

InitRules ==
  /\ IdleOverlay
  /\ cur \in StartErrors
  /\ next_code \in {c \in 1..2 : \A k \in DOMAIN cur.msgs : k < c}
  /\ rule = "none"
  /\ args = <<>>
  /\ before = cur
  /\ res = Rule(<<>>, cur, next_code)
  /\ nfolds = 0

Folds == {"none", "assert_func", "assert_discharge_rule"}

ApplyAssertFunc ==
  /\ nfolds < MaxFolds
  /\ rule \in Folds
  /\ next_code <= MaxCode
  /\ \E pred \in BoolArrays, msg \in UserMsgs :
       /\ Compatible(cur.err.shape, pred.shape)
       /\ Applied("assert_func", [pred |-> pred, msg |-> msg],
                  Rule(<<>>, assert_func(cur, pred, msg, next_code),
                       count_next(next_code)))

ApplyDischarge ==
  /\ nfolds < MaxFolds
  /\ rule \in Folds
  /\ \E pred \in BoolArrays, code \in 1..next_code, msg \in UserMsgs :
       /\ Compatible(cur.err.shape, pred.shape)
       /\ Applied("assert_discharge_rule",
                  [pred |-> pred, code |-> code, msgs |-> One(code, msg),
                   nc |-> next_code],
                  assert_discharge_rule(cur, pred, code, One(code, msg), next_code))

ApplyNan ==
  /\ nfolds = 0
  /\ cur.err.shape = <<>>
  /\ \E x \in Arrays, y \in Arrays :
       /\ Len(x.data[1]) = Len(y.data[1])
       /\ Applied("nan_error_check", [prim |-> "mul", x |-> x, y |-> y],
                  nan_error_check("mul", cur, <<x, y>>, next_code))

ApplyDiv ==
  /\ nfolds = 0
  /\ cur.err.shape = <<>>
  /\ \E x \in Arrays, y \in Arrays :
       /\ Len(x.data[1]) = Len(y.data[1])
       /\ Applied("div_error_check", [x |-> x, y |-> y],
                  div_error_check(cur, x, y, next_code))

ApplyGather ==
  /\ nfolds = 0
  /\ cur.err.shape = <<>>
  /\ \E operand \in GatherOperands, mode \in Modes :
       \E sim \in IndexMaps(operand), ss \in SliceSizes(operand) :
         \E si \in SeqsUpTo([1..Len(sim) -> GatherIndexValues], MaxIdx) :
           LET p == [start_index_map |-> sim, slice_sizes |-> ss,
                     mode |-> IF mode = "clip" THEN "clip" ELSE "fill"]
           IN Applied("gather_error_check",
                      [operand |-> operand, start_indices |-> si, p |-> p],
                      gather_error_check(cur, operand, si, p, next_code))

ApplyScatter ==
  /\ nfolds = 0
  /\ cur.err.shape = <<>>
  /\ \E prim \in ScatterPrims, operand \in ScatterOperands, mode \in Modes :
       \E dn \in ScatterDnums, n \in 1..MaxIdx :
         \E updates \in ScatterUpdates(dn, n), ix \in [1..n -> ScatterIndexValues] :
           LET p == [dimension_numbers |-> dn,
                     mode |-> IF mode = "clip" THEN "clip" ELSE "drop"]
               indices == [i \in 1..n |-> <<ix[i]>>]
           IN Applied("scatter_error_check",
                      [prim |-> prim, operand |-> operand, indices |-> indices,
                       updates |-> updates, p |-> p],
                      scatter_error_check(prim, cur, operand, indices, updates, p,
                                          next_code))

\* the per-element errs and codes a map's bind hands to _reduce_any_error
BatchErrs == {Vec(s) : s \in SeqsUpTo(BOOLEAN, MaxLen)}
BatchCodes(n) == {Vec(s) : s \in [1..n -> 0..MaxCode]}

reduced(error, red, nc) == Rule(<<>>, Error(red.err, red.code, error.msgs), nc)

ApplyReduce ==
  /\ nfolds = 0
  /\ cur.err.shape = <<>>
  /\ \E errs \in BatchErrs :
       \E codes \in BatchCodes(Size(errs)) :
         Applied("reduce_any_error", [errs |-> errs, codes |-> codes],
                 reduced(cur, reduce_any_error(errs, codes), next_code))

-----------------------------------------------------------------------------
(* The ErrorTrace overlay.  Spec runs checked_fun on a program chosen step   *)
(* by step: the program keeps one value (reg), every primitive combines it   *)
(* with a drawn operand.  At top level reg is one array; inside a map every  *)
(* lane holds one element of it.                                             *)

MaxDepth == 1    \* deepest nesting of calls and maps

\* popattr(obj, 'error'), setnewattr(obj, 'error', val) on the attribute
popattr(slot) ==
  [raised |-> IF slot = <<>> THEN "AttributeError" ELSE "no", val |-> slot, slot |-> <<>>]

setnewattr(slot, val) ==
  [raised |-> IF slot # <<>> THEN "AssertionError" ELSE "no", slot |-> <<val>>]

\* the primitives of the model that have an entry in error_checks
error_checks == {"div", "mul", "assert"}
Prims == {"div", "mul", "tan"}

\* A predicate given to assert_: its Python type, its dtype and shape as the
\* calling function sees them, and its truth value (one per lane in a map).
Pred(type, dtype, shape, val) ==
  [type |-> type, dtype |-> dtype, shape |-> shape, val |-> val]

is_scalar_pred(pred) ==
  \/ pred.type = "bool"
  \/ /\ pred.type = "ndarray"
     /\ pred.shape = <<>>
     /\ pred.dtype = "bool"

\* the trace assert_p is bound in: the ErrorTrace overlay, none (the
\* primitive is executed), or a staging trace (it is abstractly evaluated)
Traces == {"overlay", "eager", "staged"}

assert_impl_no_assert(pred, code, msgs) == [raised |-> "no", msg |-> ""]

\* assert pred, msgs[int(code)]; return []
assert_impl(pred, code, msgs) ==
  IF pred.val.data[1] THEN [raised |-> "no", msg |-> ""]
  ELSE IF code \in DOMAIN msgs THEN [raised |-> "AssertionError", msg |-> msgs[code]]
  ELSE [raised |-> "KeyError", msg |-> ""]

assert_abstract_eval(pred, code, msgs) ==
  [raised |-> "Exception", msg |-> "can't be staged!"]

\* what a call of assert_ or assert2_ leaves: the exception or "no", whether
\* assert_p was bound, its results, the ErrorValue and the counter
Bound(raised, msg, r) ==
  [raised |-> raised, msg |-> msg, bound |-> TRUE,
   out |-> r.out, error |-> r.error, next_code |-> r.next_code]

\* assert2_(pred, code, msgs) = assert_p.bind(pred, code, msgs=msgs): under
\* the overlay process_primitive hands it to the rule of assert_p
assert2_(trace, error, pred, code, msgs, nc) ==
  CASE trace = "overlay" ->
         Bound("no", "", assert_discharge_rule(error, pred.val, code, msgs, nc))
    [] trace = "eager" ->
         Bound(assert_impl(pred, code, msgs).raised, assert_impl(pred, code, msgs).msg,
               Rule(<<>>, error, nc))
    [] trace = "staged" ->
         Bound(assert_abstract_eval(pred, code, msgs).raised,
               assert_abstract_eval(pred, code, msgs).msg, Rule(<<>>, error, nc))

assert__code_first(trace, error, pred, msg, nc) ==
  IF ~is_scalar_pred(pred)
    THEN [raised |-> "TypeError", msg |-> "assert_ takes a scalar pred as argument",
          bound |-> FALSE, out |-> <<>>, error |-> error, next_code |-> count_next(nc)]
    ELSE assert2_(trace, error, pred, nc, One(nc, msg), count_next(nc))

\* assert_(pred, msg): the type check, then a code is drawn and assert_p bound
assert_(trace, error, pred, msg, nc) ==
  IF ~is_scalar_pred(pred)
    THEN [raised |-> "TypeError", msg |-> "assert_ takes a scalar pred as argument",
          bound |-> FALSE, out |-> <<>>, error |-> error, next_code |-> nc]
    ELSE assert2_(trace, error, pred, nc, One(nc, msg), count_next(nc))

process_primitive_no_rules(primitive, error, in_vals, nc) ==
  Rule(Bind(primitive, in_vals), error, nc)

\* ErrorTrace.process_primitive on the elementwise primitives
process_primitive(primitive, error, in_vals, nc) ==
  IF primitive \in error_checks
    THEN IF primitive = "div"
           THEN div_error_check(error, in_vals[1], in_vals[2], nc)
           ELSE nan_error_check(primitive, error, in_vals, nc)
    ELSE Rule(Bind(primitive, in_vals), error, nc)

\* the message of the checked program's own assertions
ProgramMsgs == {"A"}

\* the arguments checked_fun is called with: arrays of zeros and ones, of one
\* element or of MaxLen elements
Inputs ==
  {Tensor(<<>>, <<a>>) :
     a \in [1..1 -> {"zero", "one"}] \cup [1..MaxLen -> {"zero", "one"}]}

\* the literal c, broadcast to the shape of t
Broadcast(c, t) ==
  Tensor(t.shape, [i \in 1..Len(t.data) |-> [j \in 1..Len(t.data[i]) |-> c]])

\* a scalar operand, broadcast to the shape of t
OperandsLike(t) ==
  {Tensor(t.shape, [i \in 1..Len(t.data) |-> [j \in 1..Len(t.data[1]) |-> c]]) : c \in F}

PredsLike(t) ==
  {[shape |-> t.shape, data |-> d] : d \in [1..Len(t.data) -> BOOLEAN]}

\* the predicates the checked program gives to assert_: a boolean scalar per
\* lane, an int32 scalar, a boolean array
ProgramPreds(t) ==
  {Pred("ndarray", "bool", <<>>, v) : v \in PredsLike(t)}
    \cup {Pred("ndarray", "int32", <<>>, Scalar(TRUE)),
          Pred("ndarray", "bool", <<2>>, Vec(<<TRUE, FALSE>>))}

-----------------------------------------------------------------------------
(* Sub-jaxprs and the control-flow rules.  A jaxpr of the model is a        *)
(* sequence of elementwise primitives with one literal operand: equation k  *)
(* maps the running value v to prim_k(v, w), w being the second input (a    *)
(* scanned element) or the literal.  assert_p has no abstract evaluation    *)
(* rule that succeeds, so a sub-jaxpr holds no user assertion.              *)

MaxConsts == 1   \* most closed-over constants of a loop body or predicate
MaxIter == 2     \* most iterations of a while loop

Arg(aval, val) == [aval |-> aval, val |-> val]
Avals(as) == [i \in 1..Len(as) |-> as[i].aval]
Repeat(x, n) == [i \in 1..n |-> x]

Jaxpr(eqns, in_avals, out_avals) ==
  [eqns |-> eqns, in_avals |-> in_avals, out_avals |-> out_avals]

\* core.jaxpr_as_fun(jaxpr) on the running value v and second operand w
RECURSIVE eval_jaxpr(_, _, _)
eval_jaxpr(eqns, v, w) ==
  IF eqns = <<>> THEN v
  ELSE eval_jaxpr(Tail(eqns), Bind(Head(eqns), <<v, w>>), w)

\* the same equations under a new ErrorTrace main holding `error`: every
\* equation goes through process_primitive, whose result the next one gets
RECURSIVE check_errors_traceable(_, _, _, _, _)
RECURSIVE next_eqn(_, _, _)
check_errors_traceable(eqns, error, v, w, nc) ==
  IF eqns = <<>> THEN Rule(v, error, nc)
  ELSE next_eqn(Tail(eqns), w, process_primitive(Head(eqns), error, <<v, w>>, nc))

next_eqn(eqns, w, r) == check_errors_traceable(eqns, r.error, r.out, w, r.next_code)

\* the value a tracer stands for while a jaxpr is traced
Abstract == Tensor(<<>>, <<<<"one">>>>)

\* the jaxpr and msgs() that the trace t of eqns and tail leaves
traced(eqns, tail, error, in_avals, nc, t) ==
  [eqns |-> eqns,
   tail |-> tail,
   in_avals |-> <<"bool[]", "int32[]">> \o in_avals,
   msgs_in |-> error.msgs,
   first_code |-> nc,
   msgs |-> t.error.msgs,
   next_code |-> t.next_code]

\* checkify_fun_to_jaxpr(f, error, in_avals): f is traced once, the codes are
\* drawn then; the checked jaxpr takes (err, code, *in) and its table is
\* msgs().  f runs eqns, returns their result, and runs tail on it before it
\* returns (tail is empty but in the body of a while loop).
checkify_fun_to_jaxpr(eqns, tail, error, in_avals, nc) ==
  traced(eqns, tail, error, in_avals, nc,
         check_errors_traceable(eqns \o tail, error, Abstract, Abstract, nc))

checkify_jaxpr(jaxpr, error, nc) ==
  checkify_fun_to_jaxpr(jaxpr.eqns, <<>>, error, jaxpr.in_avals, nc)

\* the outputs (err, code, out) of a checked jaxpr, t being the run of its tail
checked_outs(out, t) == [err |-> t.error.err, code |-> t.error.code, out |-> out]

run_tail(tail, w, r) ==
  checked_outs(r.out, check_errors_traceable(tail, r.error, r.out, w, r.next_code))

\* core.jaxpr_as_fun(checked_jaxpr)(err, code, v, w)
checked_jaxpr_fun(cj, err, code, v, w) ==
  run_tail(cj.tail, w,
           check_errors_traceable(cj.eqns, Error(err, code, cj.msgs_in), v, w,
                                  cj.first_code))

\* core.jaxpr_as_fun(checked_jaxpr)(*a): err and code are the first two
\* arguments, the equations act on the last two
jaxpr_as_fun(cj, a) == checked_jaxpr_fun(cj, a[1], a[2], a[Len(a) - 1], a[Len(a)])

RECURSIVE checkify_branches(_, _, _)
RECURSIVE more_branches(_, _, _)
checkify_branches(branches, error, nc) ==
  IF branches = <<>> THEN <<>>
  ELSE more_branches(Tail(branches), error, checkify_jaxpr(Head(branches), error, nc))

more_branches(branches, error, cj) ==
  <<cj>> \o checkify_branches(branches, error, cj.next_code)

RECURSIVE MergeAll(_, _)
MergeAll(m, tables) ==
  IF tables = <<>> THEN m ELSE MergeAll(Merge(m, Head(tables)), Tail(tables))

\* the outputs of cond_p.bind without err and code, and the new ErrorValue
cond_outs(error, new_branches, r) ==
  Rule(r.out,
       Error(r.err, r.code,
             MergeAll(error.msgs,
                      [i \in 1..Len(new_branches) |-> new_branches[i].msgs])),
       new_branches[Len(new_branches)].next_code)

\* lax.cond_p.bind(index, err, code, *ops, branches=new_branches)
cond_bind(error, index, ops, new_branches) ==
  cond_outs(error, new_branches,
            checked_jaxpr_fun(new_branches[index + 1], error.err, error.code,
                              ops[1], ops[2]))

cond_error_check_first_branch(error, index, ops, branches, nc) ==
  cond_bind(error, 0, ops, checkify_branches(branches, error, nc))

\* cond_error_check(error, index, *ops, branches, linear)
cond_error_check(error, index, ops, branches, nc) ==
  cond_bind(error, index, ops, checkify_branches(branches, error, nc))

\* what a rule that can raise gives back
Raised(nc) == [raised |-> TRUE, out |-> <<>>, error |-> <<>>, next_code |-> nc]
Returned(r) ==
  [raised |-> FALSE, out |-> r.out, error |-> r.error, next_code |-> r.next_code]

\* the aval of one element of a scanned operand; a scalar has no leading axis
SliceAval(aval) == IF aval = "float32[n]" THEN "float32[]" ELSE "none"

\* one call of the body per element of the scanned operand: the body gets
\* consts, carry and the element in that order and returns the new carry and
\* one output element
RECURSIVE scan_loop(_, _, _, _, _, _)
RECURSIVE scan_step(_, _, _, _, _, _)
scan_loop(jaxpr, consts, carry, xs, i, ys) ==
  IF i > Len(xs) THEN carry \o <<Tensor(<<>>, <<ys>>)>>
  ELSE scan_step(jaxpr, consts, xs, i, ys,
                 jaxpr_as_fun(jaxpr, consts \o carry \o <<Tensor(<<>>, <<<<xs[i]>>>>)>>))

scan_step(jaxpr, consts, xs, i, ys, r) ==
  scan_loop(jaxpr, consts, <<r.err, r.code, r.out>>, xs, i + 1,
            Append(ys, r.out.data[1][1]))

\* lax.scan_p.bind(*operands, jaxpr=, num_consts=, num_carry=, linear=): the
\* operands are split by the two counts and must have the avals the body takes
scan_bind(operands, p) ==
  LET nfix == p.num_consts + p.num_carry
      arg_avals == [i \in 1..Len(operands) |->
                      IF i <= nfix THEN operands[i].aval
                      ELSE SliceAval(operands[i].aval)]
      vals == [i \in 1..Len(operands) |-> operands[i].val]
  IN IF arg_avals # p.jaxpr.in_avals THEN [raised |-> TRUE, outs |-> <<>>]
     ELSE [raised |-> FALSE,
           outs |-> scan_loop(p.jaxpr, SubSeq(vals, 1, p.num_consts),
                              SubSeq(vals, p.num_consts + 1, nfix),
                              vals[Len(vals)].data[1], 1, <<>>)]

\* err, code, *outs = (what scan_p.bind returned); new_msgs; the return
scan_outs(error, checked_jaxpr, b) ==
  IF b.raised THEN Raised(checked_jaxpr.next_code)
  ELSE Returned(Rule(SubSeq(b.outs, 3, Len(b.outs)),
                     Error(b.outs[1], b.outs[2], Merge(error.msgs, checked_jaxpr.msgs)),
                     checked_jaxpr.next_code))

scan_new_in_flat_after_carry(error, consts, carry, xs) ==
  consts \o carry \o <<Arg("bool[]", error.err), Arg("int32[]", error.code)>> \o xs

\* new_in_flat of scan_error_check
scan_new_in_flat(error, consts, carry, xs) ==
  consts \o <<Arg("bool[]", error.err), Arg("int32[]", error.code)>> \o carry \o xs

\* the operands scan_error_check gives to scan_p.bind
scan_operands(error, consts, carry, xs) ==
  consts \o scan_new_in_flat(error, consts, carry, xs)

\* and the parameters, new_linear among them
scan_new_params(consts, carry, linear, checked_jaxpr) ==
  [jaxpr |-> checked_jaxpr, num_consts |-> Len(consts),
   num_carry |-> Len(carry) + 2, linear |-> <<FALSE, FALSE>> \o linear]

\* the bind of scan_error_check and what is made of its results
scan_rebind(error, consts, carry, xs, linear, checked_jaxpr) ==
  scan_outs(error, checked_jaxpr,
            scan_bind(scan_operands(error, consts, carry, xs),
                      scan_new_params(consts, carry, linear, checked_jaxpr)))

\* scan_error_check(error, *in_flat, jaxpr, num_consts, num_carry, linear, ...)
scan_error_check(error, in_flat, p, nc) ==
  scan_rebind(error,
              SubSeq(in_flat, 1, p.num_consts),
              SubSeq(in_flat, p.num_consts + 1, p.num_consts + p.num_carry),
              SubSeq(in_flat, p.num_consts + p.num_carry + 1, Len(in_flat)),
              p.linear,
              checkify_jaxpr(p.jaxpr, error, nc))

\* the predicate of a while loop of the model: its equations are applied to
\* the carried value, and the loop goes on while every element is finite
Finite(t) == \A j \in 1..Len(t.data[1]) : t.data[1][j] \in {"zero", "one"}

\* the counter after a trace of eqns that an exception ends
TraceEnds(eqns, error, nc) ==
  check_errors_traceable(eqns, error, Abstract, Abstract, nc).next_code

\* checkify_while_body_jaxpr(cond_jaxpr, body_jaxpr, error): the new body
\* applies the predicate to the body's outputs
checkify_while_body_jaxpr(cond_jaxpr, body_jaxpr, error, nc) ==
  IF body_jaxpr.out_avals # cond_jaxpr.in_avals
    THEN [raised |-> TRUE, next_code |-> TraceEnds(body_jaxpr.eqns, error, nc)]
    ELSE [raised |-> FALSE,
          jaxpr |-> checkify_fun_to_jaxpr(body_jaxpr.eqns, cond_jaxpr.eqns, error,
                                          body_jaxpr.in_avals, nc)]

\* ignore_errors_jaxpr(jaxpr, error): two more invars, the same equations
ignore_errors_jaxpr(jaxpr, error) ==
  [eqns |-> jaxpr.eqns, in_avals |-> <<"bool[]", "int32[]">> \o jaxpr.in_avals]

\* the predicate with the two more invars, on its arguments a
compat_cond_fun(compat_cond_jaxpr, a) ==
  Finite(eval_jaxpr(compat_cond_jaxpr.eqns, a[Len(a) - 1], a[Len(a)]))

RECURSIVE while_loop(_, _, _, _, _)
RECURSIVE while_step(_, _, _, _, _, _)
while_loop(p, cond_consts, body_consts, carried, fuel) ==
  IF fuel = 0 \/ ~compat_cond_fun(p.cond_jaxpr, cond_consts \o carried)
    THEN carried
    ELSE while_step(p, cond_consts, body_consts, carried[Len(carried)], fuel,
                    jaxpr_as_fun(p.body_jaxpr, body_consts \o carried))

while_step(p, cond_consts, body_consts, w, fuel, r) ==
  while_loop(p, cond_consts, body_consts, <<r.err, r.code, r.out, w>>, fuel - 1)

\* lax.while_p.bind(*operands, cond_nconsts=, cond_jaxpr=, body_nconsts=,
\* body_jaxpr=): predicate and body get their consts and the carried values
while_bind(operands, p) ==
  LET cond_consts == SubSeq(operands, 1, p.cond_nconsts)
      body_consts == SubSeq(operands, p.cond_nconsts + 1,
                            p.cond_nconsts + p.body_nconsts)
      init == SubSeq(operands, p.cond_nconsts + p.body_nconsts + 1, Len(operands))
      vals(as) == [i \in 1..Len(as) |-> as[i].val]
  IN IF Avals(cond_consts \o init) # p.cond_jaxpr.in_avals
          \/ Avals(body_consts \o init) # p.body_jaxpr.in_avals
       THEN [raised |-> TRUE, outs |-> <<>>]
       ELSE [raised |-> FALSE,
             outs |-> while_loop(p, vals(cond_consts), vals(body_consts),
                                 vals(init), MaxIter)]

while_outs_no_cond_msgs(error, checked_cond_jaxpr, checked_body_jaxpr, b) ==
  IF b.raised THEN Raised(checked_body_jaxpr.next_code)
  ELSE Returned(Rule(SubSeq(b.outs, 3, Len(b.outs)),
                     Error(b.outs[1], b.outs[2],
                           Merge(error.msgs, checked_body_jaxpr.msgs)),
                     checked_body_jaxpr.next_code))

\* err, code, *out = (what while_p.bind returned); new_msgs; the return
while_outs(error, checked_cond_jaxpr, checked_body_jaxpr, b) ==
  IF b.raised THEN Raised(checked_body_jaxpr.next_code)
  ELSE Returned(Rule(SubSeq(b.outs, 3, Len(b.outs)),
                     Error(b.outs[1], b.outs[2],
                           Merge(Merge(error.msgs, checked_body_jaxpr.msgs),
                                 checked_cond_jaxpr.msgs)),
                     checked_body_jaxpr.next_code))

\* new_in_flat of while_loop_error_check, cond_r being what the first
\* application of the checked predicate returned
while_new_in_flat(in_flat, p, cond_r) ==
  SubSeq(in_flat, 1, p.cond_nconsts)
    \o SubSeq(in_flat, p.cond_nconsts + 1, p.cond_nconsts + p.body_nconsts)
    \o <<Arg("bool[]", cond_r.err), Arg("int32[]", cond_r.code)>>
    \o SubSeq(in_flat, p.cond_nconsts + p.body_nconsts + 1, Len(in_flat))

\* the parameters of the bind of while_loop_error_check
while_new_params(error, p, checked_body_jaxpr) ==
  [cond_nconsts |-> p.cond_nconsts,
   cond_jaxpr |-> ignore_errors_jaxpr(p.cond_jaxpr, error),
   body_nconsts |-> p.body_nconsts,
   body_jaxpr |-> checked_body_jaxpr]

\* compat_cond_jaxpr, new_in_flat and the bind of while_loop_error_check
while_rebind(error, in_flat, p, checked_cond_jaxpr, cond_r, checked_body) ==
  IF checked_body.raised THEN Raised(checked_body.next_code)
  ELSE while_outs(error, checked_cond_jaxpr, checked_body.jaxpr,
                  while_bind(while_new_in_flat(in_flat, p, cond_r),
                             while_new_params(error, p, checked_body.jaxpr)))

\* the arguments of the first application of the checked predicate
while_eager_args(error, in_flat) ==
  <<Arg("bool[]", error.err), Arg("int32[]", error.code)>> \o in_flat

\* the first application of the predicate, outside the loop, and the trace
\* of the new body
while_first_cond(error, in_flat, p, checked_cond_jaxpr) ==
  IF Avals(while_eager_args(error, in_flat)) # checked_cond_jaxpr.in_avals
    THEN Raised(checked_cond_jaxpr.next_code)
    ELSE while_rebind(error, in_flat, p, checked_cond_jaxpr,
                      jaxpr_as_fun(checked_cond_jaxpr,
                                   [i \in 1..Len(in_flat) + 2 |->
                                      while_eager_args(error, in_flat)[i].val]),
                      checkify_while_body_jaxpr(p.cond_jaxpr, p.body_jaxpr, error,
                                                checked_cond_jaxpr.next_code))

\* while_loop_error_check(error, *in_flat, cond_nconsts, cond_jaxpr,
\* body_nconsts, body_jaxpr)
while_loop_error_check(error, in_flat, p, nc) ==
  while_first_cond(error, in_flat, p, checkify_jaxpr(p.cond_jaxpr, error, nc))

\* the codes n successive draws return, the counter standing at nc
RECURSIVE Draws(_, _)
Draws(nc, n) == IF n = 0 THEN <<>> ELSE <<nc>> \o Draws(count_next(nc), n - 1)

\* the messages of the checks the rule of a primitive makes, one code each
Checks(primitive) ==
  CASE primitive = "div" -> <<DivMsg, NanMsg("div")>>
    [] primitive = "mul" -> <<NanMsg("mul")>>
    [] OTHER -> <<>>

RECURSIVE TraceChecks(_)
TraceChecks(eqns) ==
  IF eqns = <<>> THEN <<>> ELSE Checks(Head(eqns)) \o TraceChecks(Tail(eqns))

\* the (code, message) pairs made when the checks draw their codes from nc on
DrawnPairs(nc, checks) ==
  LET d == Draws(nc, Len(checks)) IN {<<d[i], checks[i]>> : i \in 1..Len(checks)}

Pairs(msgs) == {<<k, msgs[k]>> : k \in DOMAIN msgs}

SomeLane(b) == \E i \in 1..Len(b.data) : b.data[i]

\* the messages of the checks that fail when primitive is applied to in_vals
FailedMsgs(primitive, in_vals) ==
  (IF primitive = "div" /\ SomeLane(AnyIs("zero", in_vals[2])) THEN {DivMsg} ELSE {})
    \cup (IF primitive \in error_checks /\ SomeLane(AnyIs("nan", Bind(primitive, in_vals)))
            THEN {NanMsg(primitive)} ELSE {})

RECURSIVE FailedIn(_, _, _)
FailedIn(eqns, v, w) ==
  IF eqns = <<>> THEN {}
  ELSE FailedMsgs(Head(eqns), <<v, w>>)
         \cup FailedIn(Tail(eqns), Bind(Head(eqns), <<v, w>>), w)

\* lax.scan of the unchecked body over xs: the outputs, and the messages of
\* the checks that fail on the way
RECURSIVE scan_unchecked(_, _, _, _, _, _)
scan_unchecked(eqns, c, xs, i, ys, fails) ==
  IF i > Len(xs) THEN [out |-> Tensor(<<>>, <<ys>>), failed |-> fails]
  ELSE LET x == Tensor(<<>>, <<<<xs[i]>>>>)
           c2 == eval_jaxpr(eqns, c, x)
       IN scan_unchecked(eqns, c2, xs, i + 1, Append(ys, c2.data[1][1]),
                         fails \cup FailedIn(eqns, c, x))

\* lax.while_loop of the unchecked predicate and body, cut after fuel
\* iterations: the final value, whether the loop ended, and the messages of
\* the checks that fail on the way
RECURSIVE while_unchecked(_, _, _, _, _, _)
while_unchecked(cond_eqns, body_eqns, v, w, fuel, fails) ==
  LET f == fails \cup FailedIn(cond_eqns, v, w)
  IN IF ~Finite(eval_jaxpr(cond_eqns, v, w))
       THEN [out |-> v, ended |-> TRUE, failed |-> f]
       ELSE IF fuel = 0 THEN [out |-> v, ended |-> FALSE, failed |-> f]
       ELSE while_unchecked(cond_eqns, body_eqns, eval_jaxpr(body_eqns, v, w), w,
                            fuel - 1, f \cup FailedIn(body_eqns, v, w))

-----------------------------------------------------------------------------
(* SpecRules, the rules that take sub-jaxprs: each is applied to the drawn  *)
(* ErrorValue and to drawn operands, as the leaf rules are.                 *)

\* a scan whose body has one equation on the carry and the scanned element
\* and returns the new carry and the same value as output element
ScanParams(primitive, num_consts) ==
  [jaxpr |-> Jaxpr(<<primitive>>, Repeat("float32[]", num_consts + 2),
                   <<"float32[]", "float32[]">>),
   num_consts |-> num_consts, num_carry |-> 1,
   linear |-> Repeat(FALSE, num_consts + 2)]

ScanInputs(num_consts, c0, xs) ==
  Repeat(Arg("float32[]", Abstract), num_consts)
    \o <<Arg("float32[]", Tensor(<<>>, <<<<c0>>>>)), Arg("float32[n]", xs)>>

ApplyScan ==
  /\ nfolds = 0
  /\ cur.err.shape = <<>>
  /\ \E primitive \in Prims, c0 \in F, xs \in Arrays, num_consts \in 0..MaxConsts :
       /\ next_code + Len(Checks(primitive)) <= MaxCode + 1
       /\ Applied("scan_error_check",
                  [primitive |-> primitive, c0 |-> c0, xs |-> xs,
                   num_consts |-> num_consts, nc |-> next_code],
                  scan_error_check(cur, ScanInputs(num_consts, c0, xs),
                                   ScanParams(primitive, num_consts), next_code))

\* the two branches of a cond of the model, one equation each on the two
\* operands
CondBranches(b0, b1) ==
  <<Jaxpr(<<b0>>, <<"float32[n]", "float32[n]">>, <<"float32[n]">>),
    Jaxpr(<<b1>>, <<"float32[n]", "float32[n]">>, <<"float32[n]">>)>>

ApplyCond ==
  /\ nfolds = 0
  /\ cur.err.shape = <<>>
  /\ \E index \in 0..1, b0 \in Prims, b1 \in Prims, x \in Arrays, c \in F :
       /\ next_code + Len(TraceChecks(<<b0, b1>>)) <= MaxCode + 1
       /\ Applied("cond_error_check",
                  [index |-> index, ops |-> <<x, Broadcast(c, x)>>,
                   branches |-> CondBranches(b0, b1), nc |-> next_code],
                  cond_error_check(cur, index, <<x, Broadcast(c, x)>>,
                                   CondBranches(b0, b1), next_code))

\* a while loop whose predicate and body have one equation each on the two
\* carried values, the body leaving the second as it is
WhileParams(cprim, bprim, cond_nconsts, body_nconsts) ==
  [cond_nconsts |-> cond_nconsts,
   cond_jaxpr |-> Jaxpr(<<cprim>>,
                        Repeat("float32[]", cond_nconsts)
                          \o <<"float32[n]", "float32[n]">>,
                        <<"bool[]">>),
   body_nconsts |-> body_nconsts,
   body_jaxpr |-> Jaxpr(<<bprim>>,
                        Repeat("float32[]", body_nconsts)
                          \o <<"float32[n]", "float32[n]">>,
                        <<"float32[n]", "float32[n]">>)]

WhileInputs(cond_nconsts, body_nconsts, x, y) ==
  Repeat(Arg("float32[]", Abstract), cond_nconsts + body_nconsts)
    \o <<Arg("float32[n]", x), Arg("float32[n]", y)>>

\* the loops of the model end within MaxIter iterations
ApplyWhile ==
  /\ nfolds = 0
  /\ cur.err.shape = <<>>
  /\ \E cprim \in Prims, bprim \in Prims, x \in Arrays, c \in F :
       \E cond_nconsts \in 0..MaxConsts, body_nconsts \in 0..MaxConsts :
         /\ next_code + Len(TraceChecks(<<cprim, bprim, cprim>>)) <= MaxCode + 1
         /\ while_unchecked(<<cprim>>, <<bprim>>, x, Broadcast(c, x), MaxIter, {}).ended
         /\ Applied("while_loop_error_check",
                    [cprim |-> cprim, bprim |-> bprim, x |-> x, y |-> Broadcast(c, x),
                     cond_nconsts |-> cond_nconsts, body_nconsts |-> body_nconsts,
                     nc |-> next_code],
                    while_loop_error_check(
                      cur, WhileInputs(cond_nconsts, body_nconsts, x, Broadcast(c, x)),
                      WhileParams(cprim, bprim, cond_nconsts, body_nconsts), next_code))

ApplyPrimitive ==
  /\ nfolds = 0
  /\ cur.err.shape = <<>>
  /\ \E primitive \in Prims, x \in Arrays, y \in Arrays :
       /\ Len(x.data[1]) = Len(y.data[1])
       /\ next_code + Len(Checks(primitive)) <= MaxCode + 1
       /\ Applied("process_primitive",
                  [primitive |-> primitive, in_vals |-> <<x, y>>, nc |-> next_code],
                  process_primitive(primitive, cur, <<x, y>>, next_code))

\* the static parameters of the call and map primitives of the model: one
\* real argument, donated or not; a map maps it and its result along axis 0
CallParams == {[donated_invars |-> <<d>>] : d \in BOOLEAN}
MapParams ==
  {[in_axes |-> <<0>>, out_axes |-> <<0>>, donated_invars |-> <<d>>] : d \in BOOLEAN}

\* params_ of process_call
call_params_(params) ==
  [params EXCEPT !.donated_invars = <<FALSE, FALSE>> \o @]

\* params_ of process_map, out_axes being what new_out_axes_thunk returns
map_params_(params) ==
  [params EXCEPT !.in_axes = <<"None", "None">> \o @,
                 !.out_axes = <<0, 0>> \o @,
                 !.donated_invars = <<FALSE, FALSE>> \o @]

\* the arguments primitive.bind passes to the rewritten f
bind_args(e, in_vals) == <<e.err, e.code>> \o in_vals

check_errors_subtrace_no_msgs(slot, msgs, a) ==
  [set |-> setnewattr(slot, Error(a[1], a[2], EmptyMsgs)),
   in_tracers |-> SubSeq(a, 3, Len(a))]

\* check_errors_subtrace(main, msgs, err, code, *args) up to its first yield
check_errors_subtrace(slot, msgs, a) ==
  [set |-> setnewattr(slot, Error(a[1], a[2], msgs)),
   in_tracers |-> SubSeq(a, 3, Len(a))]

\* and from there on: main.error is read and deleted, and
\* (err, code, *out_vals), msgs are yielded
subtrace_out(error, out_vals) ==
  [vals |-> <<error.err, error.code>> \o out_vals, msgs |-> error.msgs]

\* process_call after the bind: err, code, *out_vals, and the new error
call_return(results) ==
  [error |-> Error(results.vals[1], results.vals[2], results.msgs),
   out_vals |-> SubSeq(results.vals, 3, Len(results.vals))]

map_return_unreduced(results) ==
  [error |-> Error(results.vals[1], results.vals[2], results.msgs),
   out_vals |-> SubSeq(results.vals, 3, Len(results.vals))]

\* process_map after the bind: errs, codes, *outs, the reduction, the new error
map_return(results) ==
  [error |-> Error(reduce_any_error(results.vals[1], results.vals[2]).err,
                   reduce_any_error(results.vals[1], results.vals[2]).code,
                   results.msgs),
   out_vals |-> SubSeq(results.vals, 3, Len(results.vals))]

\* what the n lanes of a map get for the arguments a = (err, code, x): an
\* argument with in_axis None as it is in every lane, one with in_axis 0 its
\* elements; err and code are scalars and have no axis 0
map_in(a, in_axes, n) ==
  IF in_axes[1] # "None" \/ in_axes[2] # "None" \/ in_axes[3] # 0
    THEN [raised |-> TRUE, lanes |-> <<>>]
    ELSE [raised |-> FALSE,
          lanes |-> <<Vec([i \in 1..n |-> a[1].data[1]]),
                      Vec([i \in 1..n |-> a[2].data[1]]),
                      Tensor(<<n>>, [i \in 1..n |-> <<a[3].data[1][i]>>])>>]

\* the results of the lanes, stacked along out axis 0
map_out(t) == Tensor(<<>>, <<[i \in 1..Len(t.data) |-> t.data[i][1]]>>)

\* the function a call or map primitive is bound to: eqns on its argument
\* and the literal c
Funs == {[eqns |-> <<p>>, c |-> c] : p \in Prims, c \in F}

\* the rewritten f between the two yields of check_errors_subtrace: f runs
\* under the sub-trace s, every equation through process_primitive
subtrace_run(f, s, nc) ==
  check_errors_traceable(f.eqns, s.set.slot[1], s.in_tracers[1],
                         Broadcast(f.c, s.in_tracers[1]), nc)

\* popattr or the bind raised
NotBound(nc) == [raised |-> TRUE, error |-> <<>>, next_code |-> nc]

\* what process_call and process_map passed, got back and left: params_ and
\* the arguments a of the bind, the error the sub-trace started on and the one
\* it ended on, the results of the bind, the tracers' values out, and the
\* error in the slot
Intercepted(params_, a, s, run, results, r) ==
  [raised |-> s.set.raised # "no" \/ setnewattr(<<>>, r.error).raised # "no",
   params_ |-> params_, args |-> a, start |-> s.set.slot[1],
   inner |-> run.error, results |-> results.vals, out |-> r.out_vals,
   slot |-> setnewattr(<<>>, r.error).slot,
   error |-> r.error, next_code |-> run.next_code]

call_done(params_, a, s, run) ==
  Intercepted(params_, a, s, run, subtrace_out(run.error, <<run.out>>),
              call_return(subtrace_out(run.error, <<run.out>>)))

call_bind(e, slot, f, params_, a, nc) ==
  call_done(params_, a, check_errors_subtrace(slot, e.msgs, a),
            subtrace_run(f, check_errors_subtrace(slot, e.msgs, a), nc))

\* ErrorTrace.process_call, slot being main.error
process_call(slot, f, in_vals, params, nc) ==
  IF popattr(slot).raised # "no" THEN NotBound(nc)
  ELSE call_bind(popattr(slot).val[1], popattr(slot).slot, f, call_params_(params),
                 bind_args(popattr(slot).val[1], in_vals), nc)

map_done(params_, a, s, run) ==
  Intercepted(params_, a, s, run, subtrace_out(run.error, <<map_out(run.out)>>),
              map_return(subtrace_out(run.error, <<map_out(run.out)>>)))

map_bind(e, slot, f, params_, a, lanes, nc) ==
  IF lanes.raised THEN NotBound(nc)
  ELSE map_done(params_, a, check_errors_subtrace(slot, e.msgs, lanes.lanes),
                subtrace_run(f, check_errors_subtrace(slot, e.msgs, lanes.lanes), nc))

\* ErrorTrace.process_map, slot being main.error
process_map(slot, f, in_vals, params, nc) ==
  IF popattr(slot).raised # "no" THEN NotBound(nc)
  ELSE map_bind(popattr(slot).val[1], popattr(slot).slot, f, map_params_(params),
                bind_args(popattr(slot).val[1], in_vals),
                map_in(bind_args(popattr(slot).val[1], in_vals),
                       map_params_(params).in_axes, Len(in_vals[1].data[1])), nc)

ApplyCall ==
  /\ nfolds = 0
  /\ cur.err.shape = <<>>
  /\ \E f \in Funs, x \in Arrays, params \in CallParams :
       /\ next_code + Len(Checks(f.eqns[1])) <= MaxCode + 1
       /\ Applied("process_call",
                  [f |-> f, in_vals |-> <<x>>, params |-> params, nc |-> next_code],
                  process_call(<<cur>>, f, <<x>>, params, next_code))

\* a map has at least one lane
ApplyMap ==
  /\ nfolds = 0
  /\ cur.err.shape = <<>>
  /\ \E f \in Funs, x \in Arrays, params \in MapParams :
       /\ x.data[1] # <<>>
       /\ next_code + Len(Checks(f.eqns[1])) <= MaxCode + 1
       /\ Applied("process_map",
                  [f |-> f, in_vals |-> <<x>>, params |-> params, nc |-> next_code],
                  process_map(<<cur>>, f, <<x>>, params, next_code))

\* the predicates a caller gives to assert_: Python bools and ints, boolean
\* and int32 scalars, boolean arrays (also of one element)
UserPreds ==
  {Pred("bool", "bool", <<>>, Scalar(b)) : b \in BOOLEAN}
    \cup {Pred("int", "int", <<>>, Scalar(b)) : b \in BOOLEAN}
    \cup {Pred("ndarray", d, <<>>, Scalar(b)) : d \in {"bool", "int32"}, b \in BOOLEAN}
    \cup {Pred("ndarray", "bool", <<Len(v)>>, Vec(v)) : v \in SeqsUpTo(BOOLEAN, MaxLen)}

ApplyAssert ==
  /\ nfolds < MaxFolds
  /\ rule \in Folds
  /\ cur.err.shape = <<>>
  /\ next_code <= MaxCode
  /\ \E trace \in Traces, pred \in UserPreds, msg \in UserMsgs :
       Applied("assert_",
               [trace |-> trace, pred |-> pred, msg |-> msg, nc |-> next_code],
               assert_(trace, cur, pred, msg, next_code))

ApplyAssert2 ==
  /\ nfolds < MaxFolds
  /\ rule \in Folds
  /\ cur.err.shape = <<>>
  /\ \E trace \in Traces, b \in BOOLEAN, code \in 1..next_code, msg \in UserMsgs :
       Applied("assert2_",
               [trace |-> trace, pred |-> Pred("ndarray", "bool", <<>>, Scalar(b)),
                code |-> code, msgs |-> One(code, msg), nc |-> next_code],
               assert2_(trace, cur, Pred("ndarray", "bool", <<>>, Scalar(b)), code,
                        One(code, msg), next_code))

NextRules ==
  \/ ApplyAssertFunc
  \/ ApplyDischarge
  \/ ApplyNan
  \/ ApplyDiv
  \/ ApplyGather
  \/ ApplyScatter
  \/ ApplyReduce
  \/ ApplyScan
  \/ ApplyAssert
  \/ ApplyAssert2
  \/ ApplyPrimitive
  \/ ApplyCall
  \/ ApplyMap
  \/ ApplyCond
  \/ ApplyWhile

SpecRules == InitRules /\ [][NextRules]_vars


-----------------------------------------------------------------------------
(* The actions of the overlay. *)

Quiet == UNCHANGED rvars

Raise ==
  /\ pc' = "raised"
  /\ main_error' = <<>>
  /\ frames' = <<>>
  /\ UNCHANGED <<next_code, reg, ref, ret, failed, issued, said>> /\ Quiet
  /\ main_msgs' = <<>>

\* an exception leaves a rule after its sub-jaxprs have drawn their codes
RaiseInRule(r, checks) ==
  /\ pc' = "raised"
  /\ main_error' = <<>>
  /\ frames' = <<>>
  /\ next_code' = r.next_code
  /\ issued' = issued \o SubSeq(Draws(next_code, Len(checks)), 1, r.next_code - next_code)
  /\ UNCHANGED <<reg, ref, ret, failed, said>> /\ Quiet
  /\ main_msgs' = <<>>

Init ==
  /\ next_code = 1
  /\ pc = "idle"
  /\ main_error = <<>>
  /\ main_msgs = <<>>
  /\ frames = <<>>
  /\ reg = Tensor(<<>>, <<<<"zero">>>>)
  /\ ref = Tensor(<<>>, <<<<"zero">>>>)
  /\ ret = <<>>
  /\ failed = {}
  /\ issued = <<>>
  /\ said = {}
  /\ cur = init_error
  /\ rule = "none"
  /\ args = <<>>
  /\ before = init_error
  /\ res = Rule(<<>>, init_error, 1)
  /\ nfolds = 0

\* checkify(fun)(*args) up to the start of fun: check_errors_toplevel makes a
\* new main and check_errors_subtrace installs init_error on it
Start ==
  /\ pc \in {"idle", "done", "raised", "TypeError"}
  /\ next_code <= MaxCode
  /\ \E x \in Inputs :
       LET s == setnewattr(<<>>, Error(init_error.err, init_error.code, init_error.msgs))
       IN /\ main_error' = s.slot
          /\ reg' = x
          /\ ref' = x
  /\ pc' = "running"
  /\ frames' = <<>>
  /\ ret' = <<>>
  /\ failed' = {}
  /\ said' = {}
  /\ UNCHANGED <<next_code, issued>> /\ Quiet
  /\ main_msgs' = <<>>

\* a rule's result is installed as main.error
Install(r, unchecked, checks, fails) ==
  /\ main_error' = <<r.error>>
  /\ reg' = r.out
  /\ ref' = unchecked
  /\ next_code' = r.next_code
  /\ issued' = issued \o Draws(next_code, Len(checks))
  /\ said' = said \cup Pairs(r.error.msgs) \cup DrawnPairs(next_code, checks)
  /\ failed' = failed \cup fails
  /\ UNCHANGED <<pc, frames, ret>> /\ Quiet
  /\ UNCHANGED main_msgs

\* process_primitive, the primitive having a leaf rule
CheckedPrimitive ==
  /\ pc = "running"
  /\ \E primitive \in Prims \cap error_checks, y \in OperandsLike(reg) :
       /\ next_code + Len(Checks(primitive)) <= MaxCode + 1
       /\ IF main_error = <<>> THEN Raise
          ELSE Install(process_primitive(primitive, main_error[1], <<reg, y>>, next_code),
                       Bind(primitive, <<ref, y>>), Checks(primitive),
                       FailedMsgs(primitive, <<reg, y>>))

\* process_primitive, the primitive having no rule
UncheckedPrimitive ==
  /\ pc = "running"
  /\ \E primitive \in Prims \ error_checks :
       LET r == process_primitive(primitive, main_error, <<reg, reg>>, next_code)
       IN /\ reg' = r.out
          /\ reg' # reg
          /\ ref' = Bind(primitive, <<ref, ref>>)
          /\ main_error' = r.error
          /\ next_code' = r.next_code
  /\ UNCHANGED <<pc, frames, ret, failed, issued, said>> /\ Quiet
  /\ UNCHANGED main_msgs

\* what assert_ left is installed, or its exception leaves the checked function
Asserted(r, pred, msg) ==
  /\ next_code' = r.next_code
  /\ issued' = issued \o Draws(next_code, r.next_code - next_code)
  /\ IF r.raised # "no"
       THEN /\ pc' = r.raised
            /\ main_error' = <<>>
            /\ frames' = <<>>
            /\ UNCHANGED <<reg, ref, ret, failed, said>> /\ Quiet
            /\ main_msgs' = <<>>
       ELSE /\ main_error' = <<r.error>>
            /\ said' = said \cup Pairs(r.error.msgs)
            /\ failed' = failed \cup (IF SomeLane(logical_not(pred.val)) THEN {msg} ELSE {})
            /\ UNCHANGED <<pc, frames, reg, ref, ret>> /\ Quiet
            /\ UNCHANGED main_msgs

\* assert_(pred, msg) called by the checked program
UserAssert ==
  /\ pc = "running"
  /\ next_code <= MaxCode
  /\ \E pred \in ProgramPreds(reg), msg \in ProgramMsgs :
       IF is_scalar_pred(pred) /\ main_error = <<>> THEN Raise
       ELSE Asserted(assert_("overlay", IF main_error = <<>> THEN init_error ELSE main_error[1],
                             pred, msg, next_code),
                     pred, msg)

\* the result r of a control-flow rule: its exception leaves process_primitive,
\* or its k-th output becomes the program's value
InstallOut(r, k, unchecked, checks, fails) ==
  IF r.raised THEN RaiseInRule(r, checks)
  ELSE Install([r EXCEPT !.out = @[k]], unchecked, checks, fails)

\* process_primitive on lax.cond_p: two branches of one equation each, the
\* operands being the program's value and a drawn operand
CondPrimitive ==
  /\ pc = "running"
  /\ frames = <<>>
  /\ \E index \in 0..1, b0 \in Prims, b1 \in Prims, y \in OperandsLike(reg) :
       LET avals == <<"float32[n]", "float32[n]">>
           branches == <<Jaxpr(<<b0>>, avals, <<"float32[n]">>),
                         Jaxpr(<<b1>>, avals, <<"float32[n]">>)>>
           checks == TraceChecks(<<b0, b1>>)
       IN /\ next_code + Len(checks) <= MaxCode + 1
          /\ IF main_error = <<>> THEN Raise
             ELSE Install(cond_error_check(main_error[1], index, <<reg, y>>, branches,
                                           next_code),
                          eval_jaxpr(branches[index + 1].eqns, ref, y), checks,
                          FailedIn(branches[index + 1].eqns, reg, y))

\* process_primitive on lax.scan_p: the program's value is scanned, the body
\* has one equation on the carry and the scanned element, its outputs are
\* the new carry and the same value as output element; num_consts values
\* are closed over
ScanPrimitive ==
  /\ pc = "running"
  /\ frames = <<>>
  /\ \E primitive \in Prims, c0 \in F, num_consts \in 0..MaxConsts :
       LET jaxpr == Jaxpr(<<primitive>>, Repeat("float32[]", num_consts + 2),
                          <<"float32[]", "float32[]">>)
           in_flat == Repeat(Arg("float32[]", Abstract), num_consts)
                        \o <<Arg("float32[]", Tensor(<<>>, <<<<c0>>>>)),
                             Arg("float32[n]", reg)>>
           p == [jaxpr |-> jaxpr, num_consts |-> num_consts, num_carry |-> 1,
                 linear |-> Repeat(FALSE, Len(in_flat))]
           checks == Checks(primitive)
           u == scan_unchecked(jaxpr.eqns, Tensor(<<>>, <<<<c0>>>>), reg.data[1], 1,
                               <<>>, {})
       IN /\ next_code + Len(checks) <= MaxCode + 1
          /\ IF main_error = <<>> THEN Raise
             ELSE InstallOut(scan_error_check(main_error[1], in_flat, p, next_code), 2,
                             scan_unchecked(jaxpr.eqns, Tensor(<<>>, <<<<c0>>>>),
                                            ref.data[1], 1, <<>>, {}).out,
                             checks, u.failed)

\* process_primitive on lax.while_p: the carry is the program's value and a
\* drawn operand, predicate and body have one equation each, the body leaves
\* the operand as it is; the loops of the model end within MaxIter iterations
WhilePrimitive ==
  /\ pc = "running"
  /\ frames = <<>>
  /\ \E cprim \in Prims, bprim \in Prims, y \in OperandsLike(reg) :
       \E cond_nconsts \in 0..MaxConsts, body_nconsts \in 0..MaxConsts :
         LET avals == <<"float32[n]", "float32[n]">>
             p == [cond_nconsts |-> cond_nconsts,
                   cond_jaxpr |-> Jaxpr(<<cprim>>,
                                        Repeat("float32[]", cond_nconsts) \o avals,
                                        <<"bool[]">>),
                   body_nconsts |-> body_nconsts,
                   body_jaxpr |-> Jaxpr(<<bprim>>,
                                        Repeat("float32[]", body_nconsts) \o avals,
                                        avals)]
             in_flat == Repeat(Arg("float32[]", Abstract), cond_nconsts + body_nconsts)
                          \o <<Arg("float32[n]", reg), Arg("float32[n]", y)>>
             checks == TraceChecks(<<cprim, bprim, cprim>>)
             u == while_unchecked(<<cprim>>, <<bprim>>, reg, y, MaxIter, {})
         IN /\ next_code + Len(checks) <= MaxCode + 1
            /\ u.ended
            /\ IF main_error = <<>> THEN Raise
               ELSE InstallOut(while_loop_error_check(main_error[1], in_flat, p,
                                                      next_code), 1,
                               while_unchecked(<<cprim>>, <<bprim>>, ref, y,
                                               MaxIter, {}).out,
                               checks, u.failed)

\* the sub-trace of a call or map starts on the arguments a
Entered(kind, msgs, slot, a) ==
  IF check_errors_subtrace(slot, msgs, a).set.raised # "no" THEN Raise
  ELSE /\ main_error' = check_errors_subtrace(slot, msgs, a).set.slot
       /\ reg' = check_errors_subtrace(slot, msgs, a).in_tracers[1]
       /\ frames' = Append(frames, [kind |-> kind])
       /\ UNCHANGED <<next_code, pc, ret, failed, issued, said>> /\ Quiet
       /\ UNCHANGED main_msgs

\* the sub-trace has yielded its results; r is what process_call or
\* process_map makes of them
Left(r) ==
  /\ main_error' = setnewattr(<<>>, r.error).slot
  /\ reg' = r.out_vals[1]
  /\ frames' = SubSeq(frames, 1, Len(frames) - 1)
  /\ UNCHANGED <<next_code, pc, ret, failed, issued, said>> /\ Quiet
  /\ UNCHANGED main_msgs

\* process_call up to the start of the called function: the error is popped,
\* and check_errors_subtrace installs the err and code it is passed
CallEnter ==
  /\ pc = "running"
  /\ Len(frames) < MaxDepth
  /\ IF popattr(main_error).raised # "no" THEN Raise
     ELSE /\ Entered("call", main_error[1].msgs, popattr(main_error).slot,
                     bind_args(main_error[1], <<reg>>))
          /\ UNCHANGED ref

\* the called function returns: check_errors_subtrace reads and deletes
\* main.error, process_call installs Error(err, code, msgs())
CallExit ==
  /\ pc = "running"
  /\ frames # <<>>
  /\ frames[Len(frames)].kind = "call"
  /\ IF main_error = <<>> THEN Raise
     ELSE /\ Left(call_return(subtrace_out(main_error[1], <<reg>>)))
          /\ UNCHANGED ref

\* process_map up to the start of the mapped function: err and code are given
\* to every lane (in_axes None), the mapped argument is split along its axis
MapEnter ==
  /\ pc = "running"
  /\ Len(frames) < MaxDepth
  /\ reg.shape = <<>>
  /\ \E params \in MapParams :
       IF popattr(main_error).raised # "no" THEN Raise
       ELSE IF map_in(bind_args(main_error[1], <<reg>>), map_params_(params).in_axes,
                      Len(reg.data[1])).raised
         THEN Raise
       ELSE /\ Entered("map", main_error[1].msgs, popattr(main_error).slot,
                       map_in(bind_args(main_error[1], <<reg>>),
                              map_params_(params).in_axes, Len(reg.data[1])).lanes)
            /\ ref' = Tensor(<<Len(ref.data[1])>>,
                             [i \in 1..Len(ref.data[1]) |-> <<ref.data[1][i]>>])

\* the mapped function returns: the per-lane errs and codes (out axis 0) are
\* reduced and installed, the per-lane results are stacked
MapExit ==
  /\ pc = "running"
  /\ frames # <<>>
  /\ frames[Len(frames)].kind = "map"
  /\ IF main_error = <<>> THEN Raise
     ELSE /\ Left(map_return(subtrace_out(main_error[1], <<map_out(reg)>>)))
          /\ ref' = map_out(ref)

\* post_process_call(primitive, tracers, params) up to its return: the error
\* is popped, its table is kept as main.msgs, and (err, code, *vals) go on
\* to the trace below
post_process_call(slot, vals) ==
  [raised |-> popattr(slot).raised # "no",
   slot |-> popattr(slot).slot,
   msgs |-> [i \in 1..Len(slot) |-> slot[i].msgs],
   vals |-> IF slot = <<>> THEN <<>> ELSE <<slot[1].err, slot[1].code>> \o vals]

\* post_process_map does the same, and has out_axes_transform beside todo
post_process_map(slot, vals) ==
  [raised |-> popattr(slot).raised # "no",
   slot |-> popattr(slot).slot,
   msgs |-> [i \in 1..Len(slot) |-> slot[i].msgs],
   vals |-> IF slot = <<>> THEN <<>> ELSE <<slot[1].err, slot[1].code>> \o vals]

out_axes_transform(out_axes) == <<0, 0>> \o out_axes

\* todo(vals): err and code are dropped, the other values are tracers of the
\* overlay again; main.error is not set
todo(vals) == SubSeq(vals, 3, Len(vals))

\* a call bound below the overlay (none of its arguments is a tracer of the
\* overlay) returns a value of the overlay that its function closed over:
\* post_process_call, then todo on what the call returned
PostProcessCall ==
  /\ pc = "running"
  /\ IF post_process_call(main_error, <<reg>>).raised THEN Raise
     ELSE /\ main_error' = post_process_call(main_error, <<reg>>).slot
          /\ main_msgs' = post_process_call(main_error, <<reg>>).msgs
          /\ reg' = todo(post_process_call(main_error, <<reg>>).vals)[1]
          /\ UNCHANGED <<next_code, pc, frames, ref, ret, failed, issued, said>> /\ Quiet

\* the same for a map of n lanes whose function returns the closed-over
\* value, a scalar, in every lane: the results are stacked along out axis 0
PostProcessMap ==
  /\ pc = "running"
  /\ reg.shape = <<>>
  /\ Len(reg.data[1]) = 1
  /\ \E n \in 1..MaxLen, params \in MapParams :
       IF post_process_map(main_error, <<reg>>).raised THEN Raise
       ELSE /\ out_axes_transform(params.out_axes) = <<0, 0, 0>>
            /\ main_error' = post_process_map(main_error, <<reg>>).slot
            /\ main_msgs' = post_process_map(main_error, <<reg>>).msgs
            /\ reg' = map_out(Tensor(<<n>>, [i \in 1..n |->
                                todo(post_process_map(main_error, <<reg>>).vals)[1].data[1]]))
            /\ ref' = map_out(Tensor(<<n>>, [i \in 1..n |-> ref.data[1]]))
            /\ UNCHANGED <<next_code, pc, frames, ret, failed, issued, said>> /\ Quiet

\* fun returns: check_errors_subtrace reads and deletes main.error, and
\* checked_fun returns Error(err, code, msgs), out
Finish ==
  /\ pc = "running"
  /\ frames = <<>>
  /\ IF main_error = <<>> THEN Raise
     ELSE /\ ret' = <<[error |-> Error(main_error[1].err, main_error[1].code,
                                       main_error[1].msgs),
                       out |-> reg]>>
          /\ main_error' = <<>>
          /\ pc' = "done"
          /\ UNCHANGED <<next_code, frames, reg, ref, failed, issued, said>> /\ Quiet
          /\ main_msgs' = <<>>

Next ==
  \/ Start
  \/ CheckedPrimitive
  \/ UncheckedPrimitive
  \/ UserAssert
  \/ CondPrimitive
  \/ ScanPrimitive
  \/ WhilePrimitive
  \/ CallEnter
  \/ CallExit
  \/ MapEnter
  \/ MapExit
  \/ PostProcessCall
  \/ PostProcessMap
  \/ Finish

Spec == Init /\ [][Next]_vars

-----------------------------------------------------------------------------
(* Claims checked under SpecRules. *)

\* the folds and the leaf rules
Folded ==
  {"assert_func", "assert_discharge_rule", "nan_error_check", "div_error_check",
   "gather_error_check", "scatter_error_check"}

Str(m) == [kind |-> "str", lines |-> <<[prefix |-> "", idx |-> <<>>, msg |-> m]>>]

Positions(a, b) == 1..NElems(BroadcastShape(a.shape, b.shape))

\* C1: first error wins.  Whatever rule was applied last and whatever its
\* predicate, code and message, every position whose err was true before has
\* err true and the same code after; and a scalar ErrorValue that reported a
\* message reports the same message after one more assert_func fold, so a
\* failing "A" followed by a failing "B" reports "A".
C1_FirstErrorWins ==
  rule \in Folded =>
    /\ \A i \in Positions(before.err, res.error.err) :
         At(before.err, i) =>
           /\ At(res.error.err, i)
           /\ At(res.error.code, i) = At(before.code, i)
    /\ (/\ rule = "assert_func"
        /\ before.err = Scalar(TRUE)
        /\ args.pred.shape = <<>>) => get(res.error) = get(before)

C1_Witness ==
  /\ nfolds = 2
  /\ rule = "assert_func"
  /\ args = [pred |-> Scalar(FALSE), msg |-> "B"]
  /\ before = Error(Scalar(TRUE), Scalar(1), One(1, "A"))
  /\ get(res.error) = Str("A")

\* C5: assert_func(init_error, p, m).get() is None for a true scalar p and is
\* m for a false one.
C5_AssertOnInit ==
  (rule = "assert_func" /\ before = init_error /\ args.pred.shape = <<>>) =>
    get(res.error) = IF args.pred.data[1] THEN NoneValue ELSE Str(args.msg)

C5_Witness ==
  /\ rule = "assert_func"
  /\ before = init_error
  /\ args.pred = Scalar(FALSE)
  /\ get(res.error) = Str(args.msg)

HasZero(y) == \E j \in 1..Len(y.data[1]) : y.data[1][j] = "zero"
HasNan(t) == \E j \in 1..Len(t.data[1]) : t.data[1][j] = "nan"

\* C8: division folds divisor-nonzero first (it gets the first code drawn) and
\* no-NaN second; on an untriggered incoming error a zero in the divisor gives
\* the 'divided by zero' message even when the quotient holds a NaN, and the
\* NaN message is reported only when no divisor element is zero.
C8_DivOrder ==
  rule = "div_error_check" =>
    /\ res.next_code = next_code
    /\ res.error.msgs[next_code - 2] = DivMsg
    /\ res.error.msgs[next_code - 1] = NanMsg("div")
    /\ ~before.err.data[1] =>
         /\ HasZero(args.y) => get(res.error) = Str(DivMsg)
         /\ get(res.error) = Str(NanMsg("div")) => ~HasZero(args.y)
         /\ (~HasZero(args.y) /\ HasNan(res.out)) => get(res.error) = Str(NanMsg("div"))

C8_Witness ==
  /\ rule = "div_error_check"
  /\ before = init_error
  /\ HasZero(args.y)
  /\ HasNan(res.out)
  /\ get(res.error) = Str(DivMsg)

\* an index vector outside the range scatter_in_bounds accepts
ScatterOutside ==
  ~scatter_in_bounds(args.operand, args.indices, args.updates, args.p.dimension_numbers)

\* C9: every scatter rule folds in-bounds first and no-NaN second; on an
\* untriggered incoming error an out-of-bounds index gives the out-of-bounds
\* message even when the output holds a NaN.
C9_ScatterOrder ==
  rule = "scatter_error_check" =>
    /\ res.error.msgs[next_code - 2] = ScatterMsg
    /\ res.error.msgs[next_code - 1] = NanMsg(args.prim)
    /\ ~before.err.data[1] =>
         /\ ScatterOutside => get(res.error) = Str(ScatterMsg)
         /\ (~ScatterOutside /\ HasNan(res.out)) =>
              get(res.error) = Str(NanMsg(args.prim))
         /\ (~ScatterOutside /\ ~HasNan(res.out)) => get(res.error) = NoneValue

C9_Witness ==
  /\ rule = "scatter_error_check"
  /\ before = init_error
  /\ args.prim = "scatter-mul"
  /\ ScatterOutside
  /\ HasNan(res.out)
  /\ get(res.error) = Str(ScatterMsg)

\* every start index i of every gathered axis a has 0 <= i <= dim[a] - slice[a]
GatherInRange ==
  \A n \in 1..Len(args.start_indices) : \A k \in 1..Len(args.p.start_index_map) :
    LET a == args.p.start_index_map[k]
        i == args.start_indices[n][k]
    IN 0 <= i /\ i <= args.operand.shape[a] - args.p.slice_sizes[a]

\* C10: on an untriggered incoming error the gather rule triggers, with the
\* out-of-bounds message, exactly when some start index is outside
\* [0, operand_dim - slice_size] of its axis; on a length-5 axis with slice
\* size 1, index 10 triggers and index 3 does not.
C10_GatherBounds ==
  (rule = "gather_error_check" /\ ~before.err.data[1]) =>
    /\ res.error.err = Scalar(~GatherInRange)
    /\ get(res.error) = IF GatherInRange THEN NoneValue ELSE Str(GatherMsg)
    /\ (/\ args.operand.shape = <<5>>
        /\ args.p.slice_sizes = <<1>>
        /\ Len(args.start_indices) = 1) =>
          /\ args.start_indices[1] = <<10>> => res.error.err = Scalar(TRUE)
          /\ args.start_indices[1] = <<3>> => res.error.err = Scalar(FALSE)

C10_Witness ==
  /\ rule = "gather_error_check"
  /\ before = init_error
  /\ args.operand.shape = <<5>>
  /\ args.p.slice_sizes = <<1>>
  /\ args.start_indices = <<<<10>>>>
  /\ get(res.error) = Str(GatherMsg)

\* C11: for non-empty parallel arrays errs and codes, _reduce_any_error
\* returns err = the OR of errs, and when err is true the code it returns is
\* the code of an element whose err is true.
C11_BatchReduction ==
  rule = "reduce_any_error" =>
    /\ res.error.err = Scalar(\E i \in 1..Size(args.errs) : args.errs.data[i])
    /\ res.error.code.shape = <<>>
    /\ res.error.err.data[1] =>
         \E i \in 1..Size(args.errs) :
           args.errs.data[i] /\ args.codes.data[i] = res.error.code.data[1]

\* the triggered element is not the last one, and the last one has another code
C11_Witness ==
  /\ rule = "reduce_any_error"
  /\ args.errs = Vec(<<TRUE, FALSE>>)
  /\ args.codes = Vec(<<2, 1>>)
  /\ res.error.err = Scalar(TRUE)
  /\ res.error.code = Scalar(2)

Elt(v) == Tensor(<<>>, <<<<v>>>>)

\* the carry the unchecked body of the recorded scan is given in iteration i
RECURSIVE CarryAt(_, _, _, _)
CarryAt(eqns, c0, xs, i) ==
  IF i = 1 THEN Elt(c0)
  ELSE eval_jaxpr(eqns, CarryAt(eqns, c0, xs, i - 1), Elt(xs[i - 1]))

\* the messages of the checks that fail in iteration i of the recorded scan
ScanFails(i) ==
  FailedIn(<<args.primitive>>,
           CarryAt(<<args.primitive>>, args.c0, args.xs.data[1], i),
           Elt(args.xs.data[1][i]))

FirstFailingIteration(k) ==
  ScanFails(k) # {} /\ \A j \in 1..(k - 1) : ScanFails(j) = {}

\* the code of the first check of the body that fails in iteration k
RecordedCode(k) ==
  LET checks == Checks(args.primitive)
      first == CHOOSE j \in 1..Len(checks) :
                 /\ checks[j] \in ScanFails(k)
                 /\ \A h \in 1..(j - 1) : checks[h] \notin ScanFails(k)
  IN Draws(args.nc, Len(checks))[first]

\* C12: a checked scan given an untriggered error, whose first failing check
\* is in iteration k, returns err true and the code of that check, whatever
\* the checks of the later iterations do.
C12_FreezeOnFirstTrigger ==
  (rule = "scan_error_check" /\ before.err = Scalar(FALSE)) =>
    \A k \in 1..Len(args.xs.data[1]) :
      FirstFailingIteration(k) =>
        /\ ~res.raised
        /\ res.error.err = Scalar(TRUE)
        /\ res.error.code = Scalar(RecordedCode(k))

\* a scalar boolean, as the calling function sees the predicate
ScalarBoolean(pred) == pred.shape = <<>> /\ pred.dtype = "bool"

\* C13: assert_ given a predicate that is not a scalar boolean raises
\* TypeError, whatever trace is active, and nothing else has happened: the
\* counter stands where it stood, assert_p was not bound, and the ErrorValue
\* is the one before the call.
C13_AssertTypeCheck ==
  (rule = "assert_" /\ ~ScalarBoolean(args.pred)) =>
    /\ res.raised = "TypeError"
    /\ ~res.bound
    /\ res.next_code = args.nc
    /\ next_code = args.nc
    /\ res.error = before
    /\ cur = before

C13_Witness ==
  /\ rule = "assert_"
  /\ args.trace = "overlay"
  /\ args.pred = Pred("ndarray", "bool", <<2>>, Vec(<<TRUE, FALSE>>))
  /\ before = Error(Scalar(FALSE), Scalar(1), One(1, "A"))
  /\ res.raised = "TypeError"
  /\ next_code = 2

\* the assertion primitive was invoked outside the overlay on a scalar boolean
OutsideOverlay ==
  /\ rule \in {"assert_", "assert2_"}
  /\ args.trace # "overlay"
  /\ ScalarBoolean(args.pred)

\* the message the recorded invocation passes for its code
SuppliedMsg == IF rule = "assert_" THEN args.msg ELSE args.msgs[args.code]

\* C14 as claimed: outside the overlay the assertion primitive is reported
\* at the call site for every scalar predicate, true or false.
C14_NeverAcceptedOutside == OutsideOverlay => res.raised # "no"

\* C14: outside the overlay, staging the assertion primitive raises for
\* every scalar predicate; executing it raises AssertionError with the
\* message of the supplied code when the predicate is false and returns its
\* zero results, with no report, when the predicate is true; no ErrorValue
\* is changed.
C14_OutsideOverlay ==
  OutsideOverlay =>
    /\ cur = before
    /\ args.trace = "staged" => res.raised = "Exception"
    /\ args.trace = "eager" =>
         IF args.pred.val.data[1]
           THEN res.raised = "no" /\ res.out = <<>>
           ELSE res.raised = "AssertionError" /\ res.msg = SuppliedMsg

C14_Witness ==
  /\ rule = "assert2_"
  /\ args.trace = "eager"
  /\ ~args.pred.val.data[1]
  /\ args.msgs = One(1, "B")
  /\ res.raised = "AssertionError"
  /\ res.msg = "B"

\* the rule of assert_p was applied, directly or by assert_p.bind under the
\* overlay, and the predicate it was given
Discharged ==
  \/ rule = "assert_discharge_rule"
  \/ rule = "assert2_" /\ args.trace = "overlay"

DischargedPred == IF rule = "assert2_" THEN args.pred.val ELSE args.pred

\* C15: the rule of assert_p folds like assert_func with the supplied code
\* and table: err' = err OR NOT pred, code' = code where err was true and the
\* supplied code elsewhere, msgs' holds the entries of msgs and of the
\* supplied table; the counter is not advanced and there are no results.
C15_Discharge ==
  Discharged =>
    /\ res.error.err.shape = BroadcastShape(before.err.shape, DischargedPred.shape)
    /\ \A i \in 1..Size(res.error.err) :
         res.error.err.data[i] = (At(before.err, i) \/ ~At(DischargedPred, i))
    /\ \A i \in 1..Size(res.error.code) :
         res.error.code.data[i] =
           IF At(before.err, i) THEN At(before.code, i) ELSE args.code
    /\ res.error.err = assert_func(before, DischargedPred, "", args.code).err
    /\ res.error.code = assert_func(before, DischargedPred, "", args.code).code
    /\ DOMAIN res.error.msgs = DOMAIN before.msgs \cup DOMAIN args.msgs
    /\ \A k \in DOMAIN args.msgs : res.error.msgs[k] = args.msgs[k]
    /\ \A k \in DOMAIN before.msgs \ DOMAIN args.msgs :
         res.error.msgs[k] = before.msgs[k]
    /\ res.next_code = args.nc
    /\ next_code = args.nc
    /\ res.out = <<>>

\* a failing assertion discharged into an ErrorValue that is triggered already
C15_Witness ==
  /\ rule = "assert_discharge_rule"
  /\ before = Error(Scalar(TRUE), Scalar(1), One(1, "A"))
  /\ args.pred = Scalar(FALSE)
  /\ args.code = 2
  /\ args.msgs = One(2, "B")
  /\ res.error = Error(Scalar(TRUE), Scalar(1), Merge(One(1, "A"), One(2, "B")))
  /\ next_code = 2

\* the positions of e that are triggered, and e as get() accepts it: err and
\* code of one shape, every triggered code in the table
Hit(e) == {i \in 1..Size(e.err) : e.err.data[i]}

WellFormed(e) ==
  /\ e.err.shape = e.code.shape
  /\ \A i \in Hit(e) : e.code.data[i] \in DOMAIN e.msgs

\* one line per triggered index, in ascending index order, each with the
\* given prefix, the 0-based index and the message of the code at the index
IndexLines(e, lines, prefix) ==
  /\ Len(lines) = Cardinality(Hit(e))
  /\ \A k \in 1..Len(lines) :
       /\ lines[k].prefix = prefix
       /\ Len(lines[k].idx) = 1
       /\ lines[k].idx[1] + 1 \in Hit(e)
       /\ lines[k].msg = e.msgs[e.code.data[lines[k].idx[1] + 1]]
  /\ \A k \in 1..(Len(lines) - 1) : lines[k].idx[1] < lines[k + 1].idx[1]

\* C16 as claimed: get() is None iff nothing is triggered; the message of
\* the code for a triggered scalar; for an array of any shape, also of one
\* element, the lines "at index <idx>: <message>" of the triggered indices.
C16_GetAsClaimed ==
  (cur # <<>> /\ WellFormed(cur)) =>
    /\ get(cur) = NoneValue <=> Hit(cur) = {}
    /\ (cur.err.shape = <<>> /\ Hit(cur) # {}) =>
         get(cur) = Str(cur.msgs[cur.code.data[1]])
    /\ (cur.err.shape # <<>> /\ Hit(cur) # {}) =>
         /\ get(cur).kind = "str"
         /\ IndexLines(cur, get(cur).lines, "at index")

\* C16: get() is None iff nothing is triggered; for an ErrorValue of one
\* element, scalar or array, that is triggered it is the message of the
\* code; for an array of more than one element it is one line per triggered
\* index, "at mapped index <idx>: <message>", in ascending index order.
C16_Get ==
  (cur # <<>> /\ WellFormed(cur)) =>
    /\ get(cur) = NoneValue <=> Hit(cur) = {}
    /\ (Size(cur.err) = 1 /\ Hit(cur) # {}) =>
         get(cur) = Str(cur.msgs[cur.code.data[1]])
    /\ (Size(cur.err) > 1 /\ Hit(cur) # {}) =>
         /\ get(cur).kind = "str"
         /\ IndexLines(cur, get(cur).lines, "at mapped index")

\* two lanes are triggered with different codes and messages
C16_Witness ==
  /\ cur # <<>>
  /\ cur.err = Vec(<<TRUE, TRUE>>)
  /\ cur.code = Vec(<<2, 3>>)
  /\ get(cur).kind = "str"
  /\ Len(get(cur).lines) = 2
  /\ get(cur).lines[1] = [prefix |-> "at mapped index", idx |-> <<0>>, msg |-> "B"]
  /\ get(cur).lines[2] = [prefix |-> "at mapped index", idx |-> <<1>>, msg |-> "A"]

\* C17: every ErrorValue a fold or a rule has produced has err and code of
\* one shape, also when assert_func folds an array-shaped predicate into a
\* scalar error, so the assertion at the start of get() holds.
C17_ShapeInvariant ==
  cur # <<>> =>
    /\ cur.err.shape = cur.code.shape
    /\ get(cur).kind # "AssertionError"

\* what the rule registered for the recorded primitive returns
RuleResult ==
  IF args.primitive = "div"
    THEN div_error_check(before, args.in_vals[1], args.in_vals[2], args.nc)
    ELSE nan_error_check(args.primitive, before, args.in_vals, args.nc)

\* C18: after process_primitive on a primitive that has a rule, the current
\* ErrorValue is the one the rule returned for the ErrorValue before, and the
\* table has gained the messages of the rule's checks; on a primitive with no
\* rule the primitive is bound directly, and err, code, the table and the
\* counter are as before.
C18_PrimitiveInterception ==
  rule = "process_primitive" =>
    /\ res.out = Bind(args.primitive, args.in_vals)
    /\ IF args.primitive \in error_checks
         THEN /\ cur = RuleResult.error
              /\ next_code = RuleResult.next_code
              /\ Pairs(cur.msgs) =
                   Pairs(before.msgs) \cup DrawnPairs(args.nc, Checks(args.primitive))
              /\ FailedMsgs(args.primitive, args.in_vals) # {} => cur.err = Scalar(TRUE)
         ELSE /\ cur = before
              /\ next_code = args.nc

\* a division by zero is intercepted
C18_Witness ==
  /\ rule = "process_primitive"
  /\ args.primitive = "div"
  /\ before = init_error
  /\ HasZero(args.in_vals[2])
  /\ get(cur) = Str(DivMsg)
  /\ next_code = args.nc + 2

-----------------------------------------------------------------------------
(* Properties of the overlay, checked under Spec. *)

Ended == pc \in {"done", "raised"}

\* every code at a triggered position of e has an entry in e's table
Complete(e) ==
  /\ \A i \in 1..Size(e.err) : e.err.data[i] => At(e.code, i) \in DOMAIN e.msgs
  /\ get(e).kind # "KeyError"

\* C2: on a run in which no injected check and no user assertion fails, the
\* checked function returns the initial ErrorValue (err false, code 0, empty
\* message table) and the result of the untransformed function.
C2_NoFailureIdempotence ==
  (Ended /\ failed = {}) =>
    /\ pc = "done"
    /\ ret[1].error = init_error
    /\ ret[1].out = ref

\* C3: whatever primitives, assertions, calls, maps, conditionals, scans and
\* while loops have run, the table of the current ErrorValue and of the
\* returned one has an entry for every code at a triggered position, so get()
\* never looks up a missing code.
C3_MessageCompleteness ==
  /\ main_error # <<>> => Complete(main_error[1])
  /\ ret # <<>> => Complete(ret[1].error)

\* a while loop whose predicate's check failed has returned a triggered
\* error, and get() gives its message
C3_Witness ==
  /\ pc = "done"
  /\ ret[1].error.err = Scalar(TRUE)
  /\ Cardinality(DOMAIN ret[1].error.msgs) = 3
  /\ failed = {NanMsg("mul")}
  /\ get(ret[1].error) = Str(NanMsg("mul"))
  /\ ret[1].error.code.data[1] \in {1, 3}

\* C4: every check draws one code from the one counter: the codes issued are
\* 1, 2, 3, ... in this order (strictly increasing, at least 1, none twice)
\* through branches, loop bodies, calls, maps and successive checkify calls,
\* and no code is given two different messages.
C4_CodeUniqueness ==
  /\ \A i \in 1..Len(issued) : issued[i] = i
  /\ next_code = Len(issued) + 1
  /\ \A a \in said, b \in said : a[1] = b[1] => a[2] = b[2]
  /\ main_error # <<>> =>
       /\ Pairs(main_error[1].msgs) \subseteq said
       /\ \A k \in DOMAIN main_error[1].msgs : \E i \in 1..Len(issued) : issued[i] = k

\* a second checkify call has drawn codes after those of the first
C4_Witness ==
  /\ pc = "done"
  /\ Len(issued) = 3
  /\ Cardinality(said) = 2
  /\ DOMAIN ret[1].error.msgs = {2, 3}

\* C6: a failing check never aborts the checked execution: the checked
\* function always returns a pair (ErrorValue, result), and the ErrorValue is
\* untriggered or triggered with the message of a check that failed.
C6_NeverRaised ==
  /\ pc # "raised"
  /\ pc = "done" =>
       \/ get(ret[1].error) = NoneValue
       \/ /\ get(ret[1].error).kind = "str"
          /\ \A k \in 1..Len(get(ret[1].error).lines) :
               get(ret[1].error).lines[k].msg \in failed

\* C7: the rules leave the numerical results as they are: while the program
\* runs its value is the unchecked program's value, and a run ends with the
\* checked function returning the unchecked function's result.
C7_ResultsIntact ==
  /\ pc = "running" => reg = ref
  /\ Ended => (pc = "done" /\ ret[1].out = ref)

\* the value the function bound by the recorded call or map computes from x
FunOf(x) == eval_jaxpr(args.f.eqns, x, Broadcast(args.f.c, x))

\* the codes drawn while the recorded function was traced have their messages
\* in the current table
CollectedInside ==
  \A k \in 1..Len(Checks(args.f.eqns[1])) :
    <<args.nc + k - 1, Checks(args.f.eqns[1])[k]>> \in Pairs(cur.msgs)

\* C19: process_call takes the current ErrorValue out of the overlay, gives
\* its err and code to the rewritten function as the first two arguments
\* ahead of the real ones, with donation flags False, False ahead of the
\* call's own; the first two results become the current ErrorValue, the other
\* results are returned in order as the function computed them, and the new
\* table holds every message of the outer table and every message collected
\* inside the call.
C19_CallInterception ==
  rule = "process_call" =>
    /\ ~res.raised
    /\ res.args = <<before.err, before.code>> \o args.in_vals
    /\ res.params_.donated_invars = <<FALSE, FALSE>> \o args.params.donated_invars
    /\ res.start = before
    /\ res.slot = <<cur>>
    /\ cur.err = res.results[1] /\ cur.code = res.results[2]
    /\ res.results[1] = res.inner.err /\ res.results[2] = res.inner.code
    /\ res.out = SubSeq(res.results, 3, Len(res.results))
    /\ res.out = <<FunOf(args.in_vals[1])>>
    /\ Pairs(before.msgs) \cup Pairs(res.inner.msgs) \subseteq Pairs(cur.msgs)
    /\ CollectedInside

\* a call on a clean error with a message in its table, inside which a check
\* fails
C19_Witness ==
  /\ rule = "process_call"
  /\ before = Error(Scalar(FALSE), Scalar(1), One(1, "A"))
  /\ args.f.eqns = <<"div">>
  /\ args.in_vals = <<Tensor(<<>>, <<<<"one", "zero">>>>)>>
  /\ args.f.c = "zero"
  /\ cur.err = Scalar(TRUE)
  /\ cur.code = Scalar(args.nc)
  /\ Pairs(cur.msgs) = {<<1, "A">>, <<args.nc, DivMsg>>, <<args.nc + 1, NanMsg("div")>>}

\* the lanes of the recorded map
Lanes == 1..Len(args.in_vals[1].data[1])

\* C20: process_map gives the two error arguments the axis None, so that
\* every lane starts on the incoming err and code, and the two error results
\* the out axis 0 ahead of the map's own out axes; the per-lane errs and codes
\* are reduced by _reduce_any_error to one pair of the shape of the incoming
\* error, which becomes the current ErrorValue.
C20_MapInterception ==
  rule = "process_map" =>
    /\ ~res.raised
    /\ res.params_.in_axes = <<"None", "None">> \o args.params.in_axes
    /\ res.params_.out_axes = <<0, 0>> \o args.params.out_axes
    /\ res.args = <<before.err, before.code>> \o args.in_vals
    /\ \A i \in Lanes : /\ res.start.err.data[i] = before.err.data[1]
                        /\ res.start.code.data[i] = before.code.data[1]
    /\ res.results[1].shape = <<Len(args.in_vals[1].data[1])>>
    /\ res.results[2].shape = <<Len(args.in_vals[1].data[1])>>
    /\ cur.err = reduce_any_error(res.results[1], res.results[2]).err
    /\ cur.code = reduce_any_error(res.results[1], res.results[2]).code
    /\ cur.err.shape = before.err.shape /\ cur.code.shape = before.code.shape
    /\ cur.err.data[1] = \E i \in Lanes : res.results[1].data[i]
    /\ res.slot = <<cur>>

\* a map of two lanes, a check failing in the first lane only
C20_Witness ==
  /\ rule = "process_map"
  /\ before = Error(Scalar(FALSE), Scalar(1), One(1, "A"))
  /\ args.f.eqns = <<"mul">>
  /\ args.f.c = "inf"
  /\ args.in_vals = <<Tensor(<<>>, <<<<"zero", "one">>>>)>>
  /\ res.results[1] = Vec(<<TRUE, FALSE>>)
  /\ res.results[2] = Vec(<<args.nc, args.nc>>)
  /\ cur.err = Scalar(TRUE)
  /\ cur.code = Scalar(args.nc)

\* the batch elements of the recorded reduction whose err is true
Triggered == {i \in 1..Size(args.errs) : args.errs.data[i]}

\* C30: _reduce_any_error reports the code of the triggered element of the
\* highest index; when no element is triggered it reports err false and the
\* code of the last element.  The incoming error plays no part in the pair.
C30_BatchTieBreak ==
  rule = "reduce_any_error" =>
    /\ Triggered # {} =>
         /\ res.error.err = Scalar(TRUE)
         /\ \E i \in Triggered :
              /\ \A j \in Triggered : j <= i
              /\ res.error.code = Scalar(args.codes.data[i])
    /\ Triggered = {} =>
         /\ res.error.err = Scalar(FALSE)
         /\ res.error.code = Scalar(args.codes.data[Size(args.codes)])
    /\ res.error.msgs = before.msgs

\* two elements trigger, the first with the higher code, on an untriggered
\* incoming error
C30_Witness ==
  /\ rule = "reduce_any_error"
  /\ ~before.err.data[1]
  /\ args.errs = Vec(<<TRUE, TRUE>>)
  /\ args.codes = Vec(<<3, 2>>)
  /\ res.error.code = Scalar(2)

\* the rewritten branches of the recorded cond
NewBranches == checkify_branches(args.branches, before, args.nc)

\* what rewritten branch i returns on the recorded operands
BranchRun(i) ==
  checked_jaxpr_fun(NewBranches[i], before.err, before.code, args.ops[1], args.ops[2])

\* C21: cond_error_check derives every branch from the incoming error, every
\* rewritten branch takes err and code ahead of the branch's own inputs and
\* returns err and code ahead of its own outputs; the outgoing err and code
\* are those of the selected branch, so a check failing only in a branch that
\* is not selected does not trigger; the outgoing table is the union of the
\* incoming table and the tables of all branches.
C21_CondRewriting ==
  rule = "cond_error_check" =>
    /\ Len(NewBranches) = Len(args.branches)
    /\ \A i \in 1..Len(NewBranches) :
         /\ NewBranches[i].msgs_in = before.msgs
         /\ NewBranches[i].in_avals = <<"bool[]", "int32[]">> \o args.branches[i].in_avals
         /\ NewBranches[i].in_avals = NewBranches[1].in_avals
         /\ DOMAIN BranchRun(i) = {"err", "code", "out"}
         /\ BranchRun(i).out = eval_jaxpr(args.branches[i].eqns, args.ops[1], args.ops[2])
    /\ cur.err = BranchRun(args.index + 1).err
    /\ cur.code = BranchRun(args.index + 1).code
    /\ res.out = BranchRun(args.index + 1).out
    /\ cur.err.data[1] =
         (before.err.data[1]
            \/ FailedIn(args.branches[args.index + 1].eqns, args.ops[1], args.ops[2]) # {})
    /\ Pairs(cur.msgs) =
         Pairs(before.msgs)
           \cup UNION {Pairs(NewBranches[i].msgs) : i \in 1..Len(NewBranches)}
    /\ \A k \in DOMAIN before.msgs : cur.msgs[k] = before.msgs[k]

\* the selected branch has no check, the other one divides by zero
C21_Witness ==
  /\ rule = "cond_error_check"
  /\ before = init_error
  /\ args.index = 0
  /\ args.branches = CondBranches("tan", "div")
  /\ args.ops = <<Tensor(<<>>, <<<<"one">>>>), Tensor(<<>>, <<<<"zero">>>>)>>
  /\ cur.err = Scalar(FALSE)
  /\ <<args.nc, DivMsg>> \in Pairs(cur.msgs)
  /\ BranchRun(2).err = Scalar(TRUE)

\* the operands and parameters of the recorded scan, split as scan_error_check
\* splits them
ScanIn == ScanInputs(args.num_consts, args.c0, args.xs)
ScanP == ScanParams(args.primitive, args.num_consts)
ScanConsts == SubSeq(ScanIn, 1, ScanP.num_consts)
ScanCarry == SubSeq(ScanIn, ScanP.num_consts + 1, ScanP.num_consts + ScanP.num_carry)
ScanXs == SubSeq(ScanIn, ScanP.num_consts + ScanP.num_carry + 1, Len(ScanIn))

\* what scan_error_check hands to scan_p.bind
ScanNewInFlat == scan_new_in_flat(before, ScanConsts, ScanCarry, ScanXs)
ScanOperands == scan_operands(before, ScanConsts, ScanCarry, ScanXs)
ScanNewParams ==
  scan_new_params(ScanConsts, ScanCarry, ScanP.linear,
                  checkify_jaxpr(ScanP.jaxpr, before, args.nc))

IsErrorSlot(a) == a.aval \in {"bool[]", "int32[]"}
IsOperand(a) == ~IsErrorSlot(a)

\* the aval the body of the bound scan is given for operand i
BodyAval(i) ==
  IF i <= ScanNewParams.num_consts + ScanNewParams.num_carry
    THEN ScanOperands[i].aval
    ELSE SliceAval(ScanOperands[i].aval)

\* C27: the operands scan_error_check hands to scan_p are num_consts
\* constants, num_carry + 2 carried values and the scanned inputs, every
\* operand of the original scan once; linear has one flag per operand, and
\* operand i has the aval of input i of the rewritten body; the bind does not
\* raise.
C27_ScanOperands ==
  rule = "scan_error_check" =>
    /\ Len(ScanOperands) = ScanP.num_consts + (ScanP.num_carry + 2) + Len(ScanXs)
    /\ SelectSeq(ScanOperands, IsOperand) = ScanIn
    /\ Len(ScanNewParams.linear) = Len(ScanOperands)
    /\ Len(ScanNewParams.jaxpr.in_avals) = Len(ScanOperands)
    /\ \A j \in 1..Len(ScanOperands) :
         j <= Len(ScanNewParams.jaxpr.in_avals)
           => BodyAval(j) = ScanNewParams.jaxpr.in_avals[j]
    /\ ~res.raised

WhileIn == WhileInputs(args.cond_nconsts, args.body_nconsts, args.x, args.y)
WhileP == WhileParams(args.cprim, args.bprim, args.cond_nconsts, args.body_nconsts)
WhileCondConsts == SubSeq(WhileIn, 1, WhileP.cond_nconsts)
WhileBodyConsts ==
  SubSeq(WhileIn, WhileP.cond_nconsts + 1, WhileP.cond_nconsts + WhileP.body_nconsts)
WhileCarry == SubSeq(WhileIn, WhileP.cond_nconsts + WhileP.body_nconsts + 1, Len(WhileIn))

\* the rewritten predicate and body of the recorded loop
CheckedCond == checkify_jaxpr(WhileP.cond_jaxpr, before, args.nc)
CheckedBody ==
  checkify_while_body_jaxpr(WhileP.cond_jaxpr, WhileP.body_jaxpr, before,
                            CheckedCond.next_code)

\* the carried operands of the bind: err, code and the carry
WhileInit ==
  SubSeq(while_new_in_flat(WhileIn, WhileP, before),
         WhileP.cond_nconsts + WhileP.body_nconsts + 1, Len(WhileIn) + 2)

\* C28: the operands while_loop_error_check hands to while_p reach the
\* predicate with the two ignored arguments and the rewritten body at the
\* inputs these declare; the first application of the checked predicate gets
\* the predicate's constants and the carry, and so does the application at
\* the end of the new body; nothing raises.
C28_WhileOperands ==
  rule = "while_loop_error_check" =>
    /\ SelectSeq(while_eager_args(before, WhileIn), IsOperand)
         = WhileCondConsts \o WhileCarry
    /\ WhileP.body_jaxpr.out_avals = WhileP.cond_jaxpr.in_avals
    /\ ~CheckedBody.raised
    /\ Avals(WhileCondConsts \o WhileInit)
         = ignore_errors_jaxpr(WhileP.cond_jaxpr, before).in_avals
    /\ Avals(WhileBodyConsts \o WhileInit) = CheckedBody.jaxpr.in_avals
    /\ ~res.raised

\* the unchecked run of the recorded while loop
WhileUnchecked ==
  while_unchecked(<<args.cprim>>, <<args.bprim>>, args.x, args.y, MaxIter, {})

\* the values err and code can have
ErrCodeArgs ==
  {<<Arg("bool[]", Scalar(b)), Arg("int32[]", Scalar(k))>> : b \in BOOLEAN, k \in 0..MaxCode}

\* C24: the predicate with the two ignored arguments gives the same result
\* for every err and code, so the checked loop returns the carried values of
\* the unchecked loop, whatever the incoming error is.
C24_PredicateIgnoresError ==
  rule = "while_loop_error_check" =>
    /\ \A ec \in ErrCodeArgs :
         compat_cond_fun(ignore_errors_jaxpr(WhileP.cond_jaxpr, before),
                         [j \in 1..Len(WhileCondConsts \o ec \o WhileCarry) |->
                            (WhileCondConsts \o ec \o WhileCarry)[j].val])
           = Finite(eval_jaxpr(WhileP.cond_jaxpr.eqns, args.x, args.y))
    /\ ~res.raised
    /\ res.out = <<WhileUnchecked.out, args.y>>

\* the codes of the checks of the recorded loop: those of the first
\* application of the predicate, of the body, and of the predicate applied at
\* the end of the new body
FirstCondCodes == Draws(args.nc, Len(Checks(args.cprim)))
BodyCodes == Draws(args.nc + Len(Checks(args.cprim)), Len(Checks(args.bprim)))
NextCondCodes ==
  Draws(args.nc + Len(Checks(args.cprim)) + Len(Checks(args.bprim)),
        Len(Checks(args.cprim)))

\* the code of the first check of primitive that fails on (v, w), 0 if none
FirstFailed(primitive, v, w, codes) ==
  LET fails == {j \in 1..Len(codes) :
                  Checks(primitive)[j] \in FailedMsgs(primitive, <<v, w>>)}
  IN IF fails = {} THEN 0
     ELSE codes[CHOOSE j \in fails : \A h \in fails : j <= h]

\* the code of the first failing check in the order pred(s0), body(s0),
\* pred(s1), ..., 0 if no check fails; v is the carried value, codes those of
\* the predicate's checks at this point
RECURSIVE FirstInOrder(_, _, _)
FirstInOrder(v, fuel, codes) ==
  IF FirstFailed(args.cprim, v, args.y, codes) # 0
    THEN FirstFailed(args.cprim, v, args.y, codes)
  ELSE IF fuel = 0 \/ ~Finite(eval_jaxpr(<<args.cprim>>, v, args.y)) THEN 0
  ELSE IF FirstFailed(args.bprim, v, args.y, BodyCodes) # 0
    THEN FirstFailed(args.bprim, v, args.y, BodyCodes)
  ELSE FirstInOrder(eval_jaxpr(<<args.bprim>>, v, args.y), fuel - 1, NextCondCodes)

\* C23: a checked while loop given an untriggered error returns err true and
\* the code of the first check that fails in the order pred(s0), body(s0),
\* pred(s1), ..., pred(sN), and err false when none fails; the first
\* application of the predicate is checked outside the loop on the incoming
\* error, every later one at the end of the rewritten body.
C23_WhilePredicateChecks ==
  (rule = "while_loop_error_check" /\ before.err = Scalar(FALSE)) =>
    /\ ~res.raised
    /\ CheckedBody.jaxpr.tail = WhileP.cond_jaxpr.eqns
    /\ CheckedCond.msgs_in = before.msgs
    /\ cur.err = Scalar(FirstInOrder(args.x, MaxIter, FirstCondCodes) # 0)
    /\ cur.err.data[1] =>
         cur.code = Scalar(FirstInOrder(args.x, MaxIter, FirstCondCodes))

\* the rules of the composite constructs
Composite ==
  {"process_call", "process_map", "cond_error_check", "scan_error_check",
   "while_loop_error_check"}

\* the recorded rule was left by an exception
RuleRaised == "raised" \in DOMAIN res /\ res.raised

\* C26: a call, map, cond, scan or while loop given a triggered error with
\* code c returns a triggered error with code c, whatever fails inside.
C26_FirstFailureThroughComposites ==
  (rule \in Composite /\ before.err = Scalar(TRUE)) =>
    /\ ~RuleRaised
    /\ cur.err = Scalar(TRUE)
    /\ cur.code = before.code

\* C25: while the checked function runs, at any depth of calls and maps, the
\* slot main.error holds exactly one ErrorValue, so that every sub-trace finds
\* it empty after the pop and full at its end; when the checked function is
\* not running, having returned or not started, nothing is left in the slot.
C25_SlotProtocol ==
  /\ pc = "running" => Len(main_error) = 1
  /\ pc \in {"idle", "done"} => main_error = <<>>

\* C29: whenever the next primitive can be intercepted or a sub-trace can
\* finish, there is a current ErrorValue, and if a check has failed in this
\* run it is triggered: no operation of the overlay that pops the error
\* leaves the slot empty behind it.
C29_ErrorSurvivesPop ==
  pc = "running" =>
    /\ main_error # <<>>
    /\ failed # {} => SomeLane(main_error[1].err)

=============================================================================
